---- MODULE Spec2Model ----
(***************************************************************************)
(* A model of the JavaScript-literal decoding and embedded-value           *)
(* extraction engine of duckdb_html_query (src/src/js_decode.rs and the    *)
(* JSON repair helper of src/src/lib.rs).                                  *)
(*                                                                         *)
(* Text is a sequence of characters; a character is its Unicode scalar     *)
(* value (a natural number), so that hex escapes, UTF-8 byte lengths and   *)
(* character classes are computed as the code computes them.               *)
(***************************************************************************)
EXTENDS Integers, Sequences, FiniteSets, TLC

VARIABLES
    input,      \* the text handed to the operation (script_content / input)
    pattern,    \* the second argument (var_pattern), <<>> when there is none
    pc,         \* "ready": the call has not run yet; "done": it has returned
    result      \* the value the call returned, NoResult before it ran

vars == <<input, pattern, pc, result>>

-----------------------------------------------------------------------------
(* Characters the code names.                                              *)

NUL == 0
BACKSPACE == 8
TAB == 9
NEWLINE == 10
VTAB == 11
FORMFEED == 12
CR == 13
SPACE == 32
DQUOTE == 34
SQUOTE == 39
STAR == 42
PLUS == 43
COMMA == 44
MINUS == 45
DOT == 46
SLASH == 47
DIGIT_0 == 48
SEMICOLON == 59
EQUALS == 61
LBRACKET == 91
BACKSLASH == 92
RBRACKET == 93
LOWER_B == 98
LOWER_F == 102
LOWER_N == 110
LOWER_R == 114
LOWER_T == 116
LOWER_U == 117
LOWER_V == 118
LOWER_X == 120
LBRACE == 123
RBRACE == 125

-----------------------------------------------------------------------------
(* Helpers on text.                                                        *)

Min(a, b) == IF a < b THEN a ELSE b

\* chars.by_ref().take(n): the next n characters from index `from`, or
\* fewer when the text ends.
Take(s, from, n) == SubSeq(s, from, Min(Len(s), from + n - 1))

\* char::len_utf8
len_utf8(c) ==
    IF c < 128 THEN 1 ELSE IF c < 2048 THEN 2 ELSE IF c < 65536 THEN 3 ELSE 4

\* str::len: the length of a text in UTF-8 bytes
RECURSIVE ByteLen(_)
ByteLen(s) == IF s = <<>> THEN 0 ELSE len_utf8(Head(s)) + ByteLen(Tail(s))

\* char::to_digit(16)
IsHexDigit(c) ==
    \/ c \in 48..57
    \/ c \in 97..102
    \/ c \in 65..70

HexValue(c) ==
    IF c \in 48..57 THEN c - 48
    ELSE IF c \in 97..102 THEN c - 87
    ELSE c - 55

RECURSIVE HexDigitsValue(_, _)
HexDigitsValue(ds, acc) ==
    IF ds = <<>> THEN acc
    ELSE HexDigitsValue(Tail(ds), acc * 16 + HexValue(Head(ds)))

\* The digits uN::from_str_radix reads: for an unsigned type one leading
\* '+' is accepted and skipped, a lone sign is rejected.
RadixDigits(hex) ==
    IF hex # <<>> /\ Head(hex) = PLUS THEN Tail(hex) ELSE hex

\* u8::from_str_radix(hex, 16) / u32::from_str_radix(hex, 16):
\* [ok, val]; no overflow is possible for the at most four digits read here.
from_str_radix_16(hex) ==
    LET ds == RadixDigits(hex) IN
    IF ds # <<>> /\ \A k \in 1..Len(ds) : IsHexDigit(ds[k])
    THEN [ok |-> TRUE, val |-> HexDigitsValue(ds, 0)]
    ELSE [ok |-> FALSE, val |-> 0]

\* char::from_u32: a Unicode scalar value, so no surrogate
char_from_u32(cp) == (cp < 55296 \/ cp > 57343) /\ cp <= 1114111

-----------------------------------------------------------------------------
(* decode_js_string                                                        *)

\* An error is the message the code formats: its text, the escape it names
\* (decoder errors) and the text it quotes.
NoErr == [msg |-> "", esc |-> "", quoted |-> <<>>]
Ok(v) == [ok |-> TRUE, val |-> v, err |-> NoErr]
Err(e) == [ok |-> FALSE, val |-> <<>>, err |-> e]

\* One escape: what it emits and how many characters it uses, the
\* backslash included; or the error that ends the call.
Emit(cs, n) == [ok |-> TRUE, emit |-> cs, used |-> n, err |-> NoErr]
Malformed(m, e, h) ==
    [ok |-> FALSE, emit |-> <<>>, used |-> 0,
     err |-> [msg |-> m, esc |-> e, quoted |-> h]]

\* A decoder that takes the letter u for an escape letter even without a
\* backslash before it, and drops it.
PlainChar_DropsU(c) == IF c = LOWER_U THEN <<>> ELSE <<c>>

\* A decoder that pushes the two UTF-8 bytes of a character above U+007F
\* as two characters
PlainChar_Utf8Bytes(c) ==
    IF c < 128 THEN <<c>> ELSE <<192 + (c \div 64), 128 + (c % 64)>>

\* result.push(ch) for a character that is no backslash
PlainChar(c) == <<c>>

\* Some('x'): the backslash is at s[i], 'x' at s[i+1]
HexEscape(s, i) ==
    LET hex == Take(s, i + 2, 2) IN
    IF ByteLen(hex) = 2
    THEN LET byte == from_str_radix_16(hex) IN
         IF byte.ok THEN Emit(<<byte.val>>, 2 + Len(hex))
         ELSE Malformed("Invalid hex escape", "\\x", hex)
    ELSE Malformed("Incomplete hex escape", "\\x", hex)

\* Some('u'), and the double-escaped form: the four characters start at
\* s[from]; `lead` is the number of characters before them, `esc` the
\* escape the error message names.
UnicodeEscape(s, from, lead, esc) ==
    LET hex == Take(s, from, 4) IN
    IF ByteLen(hex) = 4
    THEN LET code_point == from_str_radix_16(hex) IN
         IF code_point.ok
         THEN IF char_from_u32(code_point.val)
              THEN Emit(<<code_point.val>>, lead + Len(hex))
              ELSE Malformed("Invalid unicode code point", esc, hex)
         ELSE Malformed("Invalid unicode escape", esc, hex)
    ELSE Malformed("Incomplete unicode escape", esc, hex)

\* A decoder without the double-escape rule: two backslashes are always one
\* backslash, and a following u is an ordinary letter.
DoubleBackslash_NoUnicode(s, i) == Emit(<<BACKSLASH>>, 2)

\* Some('\\'): a double-escaped \\uNNNN, or a regular backslash
DoubleBackslash(s, i) ==
    IF i + 2 <= Len(s) /\ s[i + 2] = LOWER_U
    THEN UnicodeEscape(s, i + 3, 3, "\\\\u")
    ELSE Emit(<<BACKSLASH>>, 2)

\* A decoder that knows JSON's single-character escapes only: \', \v and
\* \0 fall to the unknown escape and emit the letter itself.
SimpleEscape_JsonOnly(c) ==
    CASE c = LOWER_N -> NEWLINE
      [] c = LOWER_R -> CR
      [] c = LOWER_T -> TAB
      [] c = LOWER_B -> BACKSPACE
      [] c = LOWER_F -> FORMFEED
      [] OTHER -> c

\* The single-character escapes and the unknown escape
SimpleEscape(c) ==
    CASE c = LOWER_N -> NEWLINE
      [] c = LOWER_R -> CR
      [] c = LOWER_T -> TAB
      [] c = DQUOTE -> DQUOTE
      [] c = SQUOTE -> SQUOTE
      [] c = LOWER_B -> BACKSPACE
      [] c = LOWER_F -> FORMFEED
      [] c = LOWER_V -> VTAB
      [] c = DIGIT_0 -> NUL
      [] c = MINUS -> MINUS
      [] c = SLASH -> SLASH
      [] OTHER -> c

\* match chars.peek() after a backslash at s[i]
Escape(s, i) ==
    IF i = Len(s) THEN Emit(<<BACKSLASH>>, 1)
    ELSE LET nx == s[i + 1] IN
         CASE nx = LOWER_X -> HexEscape(s, i)
           [] nx = LOWER_U -> UnicodeEscape(s, i + 2, 2, "\\u")
           [] nx = BACKSLASH -> DoubleBackslash(s, i)
           [] OTHER -> Emit(<<SimpleEscape(nx)>>, 2)

RECURSIVE decode_from(_, _, _)
decode_from(s, i, out) ==
    IF i > Len(s) THEN Ok(out)
    ELSE IF s[i] # BACKSLASH THEN decode_from(s, i + 1, out \o PlainChar(s[i]))
    ELSE LET e == Escape(s, i) IN
         IF e.ok THEN decode_from(s, i + e.used, out \o e.emit)
         ELSE Err(e.err)

decode_js_string(s) == decode_from(s, 1, <<>>)

-----------------------------------------------------------------------------
(* serde_json::from_str::<serde_json::Value>: a JSON value, or failure.    *)
(* A value is <<"null">>, <<"true">>, <<"false">>, <<"num", lexeme>>,      *)
(* <<"str", text>>, <<"arr", values>> or <<"obj", members>>, members a     *)
(* function from the keys to their values (a repeated key keeps its last   *)
(* value). A number is kept as the text that denotes it.                   *)

EOF == -1

\* The character at index i, EOF past the end
At(s, i) == IF i >= 1 /\ i <= Len(s) THEN s[i] ELSE EOF

StartsAt(s, i, lit) ==
    /\ i + Len(lit) - 1 <= Len(s)
    /\ SubSeq(s, i, i + Len(lit) - 1) = lit

IsDigit(c) == c \in 48..57

JsonWs(c) == c \in {SPACE, NEWLINE, TAB, CR}

RECURSIVE SkipJsonWs(_, _)
SkipJsonWs(s, i) == IF JsonWs(At(s, i)) THEN SkipJsonWs(s, i + 1) ELSE i

RECURSIVE SkipDigits(_, _)
SkipDigits(s, i) == IF IsDigit(At(s, i)) THEN SkipDigits(s, i + 1) ELSE i

PFail == [ok |-> FALSE, v |-> <<>>, at |-> 0]
POk(v, at) == [ok |-> TRUE, v |-> v, at |-> at]

\* The end of the exponent part starting at i (i itself when there is
\* none), 0 when it is malformed
ExponentEnd(s, i) ==
    IF At(s, i) \in {101, 69}
    THEN LET j == IF At(s, i + 1) \in {PLUS, MINUS} THEN i + 2 ELSE i + 1 IN
         IF IsDigit(At(s, j)) THEN SkipDigits(s, j) ELSE 0
    ELSE i

\* The end of the fraction and exponent parts starting at i, 0 when malformed
FractionEnd(s, i) ==
    IF At(s, i) = DOT
    THEN IF IsDigit(At(s, i + 1)) THEN ExponentEnd(s, SkipDigits(s, i + 1))
         ELSE 0
    ELSE ExponentEnd(s, i)

ParseNumber(s, i) ==
    LET j == IF At(s, i) = MINUS THEN i + 1 ELSE i
        intEnd == IF At(s, j) = DIGIT_0
                  THEN IF IsDigit(At(s, j + 1)) THEN 0 ELSE j + 1
                  ELSE IF IsDigit(At(s, j)) THEN SkipDigits(s, j) ELSE 0
        end == IF intEnd = 0 THEN 0 ELSE FractionEnd(s, intEnd)
    IN IF end = 0 THEN PFail ELSE POk(<<"num", SubSeq(s, i, end - 1)>>, end)

JsonEscape(c) ==
    CASE c = LOWER_B -> BACKSPACE
      [] c = LOWER_F -> FORMFEED
      [] c = LOWER_N -> NEWLINE
      [] c = LOWER_R -> CR
      [] c = LOWER_T -> TAB
      [] OTHER -> c

\* The four hex digits at i, -1 when they are not four hex digits
Hex4(s, i) ==
    IF i + 3 <= Len(s) /\ \A k \in i..(i + 3) : IsHexDigit(s[k])
    THEN HexDigitsValue(SubSeq(s, i, i + 3), 0)
    ELSE -1

\* The text of a string literal whose opening quote is before index i
RECURSIVE ParseStringBody(_, _, _)
ParseStringBody(s, i, out) ==
    LET c == At(s, i) IN
    IF c = EOF \/ (c >= 0 /\ c < 32) THEN PFail
    ELSE IF c = DQUOTE THEN POk(out, i + 1)
    ELSE IF c # BACKSLASH THEN ParseStringBody(s, i + 1, Append(out, c))
    ELSE LET e == At(s, i + 1) IN
         IF e \in {DQUOTE, BACKSLASH, SLASH, LOWER_B, LOWER_F, LOWER_N,
                   LOWER_R, LOWER_T}
         THEN ParseStringBody(s, i + 2, Append(out, JsonEscape(e)))
         ELSE IF e # LOWER_U THEN PFail
         ELSE LET n1 == Hex4(s, i + 2) IN
              IF n1 = -1 \/ (n1 >= 56320 /\ n1 <= 57343) THEN PFail
              ELSE IF n1 < 55296 \/ n1 > 56319
              THEN ParseStringBody(s, i + 6, Append(out, n1))
              ELSE LET n2 == IF At(s, i + 6) = BACKSLASH /\ At(s, i + 7) = LOWER_U
                             THEN Hex4(s, i + 8) ELSE -1 IN
                   IF n2 < 56320 \/ n2 > 57343 THEN PFail
                   ELSE ParseStringBody(s, i + 12,
                            Append(out, 65536 + (n1 - 55296) * 1024 + (n2 - 56320)))

RECURSIVE ParseValue(_, _), ParseElements(_, _, _), ParseMembers(_, _, _)

\* The value that starts at index i (whitespace already skipped)
ParseValue(s, i) ==
    LET c == At(s, i) IN
    CASE c = LOWER_N ->
            IF StartsAt(s, i, <<110, 117, 108, 108>>)
            THEN POk(<<"null">>, i + 4) ELSE PFail
      [] c = LOWER_T ->
            IF StartsAt(s, i, <<116, 114, 117, 101>>)
            THEN POk(<<"true">>, i + 4) ELSE PFail
      [] c = LOWER_F ->
            IF StartsAt(s, i, <<102, 97, 108, 115, 101>>)
            THEN POk(<<"false">>, i + 5) ELSE PFail
      [] c = MINUS \/ IsDigit(c) -> ParseNumber(s, i)
      [] c = DQUOTE ->
            LET b == ParseStringBody(s, i + 1, <<>>) IN
            IF b.ok THEN POk(<<"str", b.v>>, b.at) ELSE PFail
      [] c = LBRACKET ->
            LET j == SkipJsonWs(s, i + 1) IN
            IF At(s, j) = RBRACKET THEN POk(<<"arr", <<>>>>, j + 1)
            ELSE ParseElements(s, j, <<>>)
      [] c = LBRACE ->
            LET j == SkipJsonWs(s, i + 1) IN
            IF At(s, j) = RBRACE THEN POk(<<"obj", <<>>>>, j + 1)
            ELSE ParseMembers(s, j, <<>>)
      [] OTHER -> PFail

\* The elements of an array from index i on; `items` are those read so far
ParseElements(s, i, items) ==
    LET v == ParseValue(s, i) IN
    IF ~v.ok THEN PFail
    ELSE LET k == SkipJsonWs(s, v.at)
             all == Append(items, v.v)
         IN IF At(s, k) = COMMA THEN ParseElements(s, SkipJsonWs(s, k + 1), all)
            ELSE IF At(s, k) = RBRACKET THEN POk(<<"arr", all>>, k + 1)
            ELSE PFail

\* The members of an object from index i on; `members` are those read so far
ParseMembers(s, i, members) ==
    IF At(s, i) # DQUOTE THEN PFail
    ELSE LET key == ParseStringBody(s, i + 1, <<>>) IN
         IF ~key.ok THEN PFail
         ELSE LET k == SkipJsonWs(s, key.at) IN
              IF At(s, k) # 58 THEN PFail
              ELSE LET v == ParseValue(s, SkipJsonWs(s, k + 1)) IN
                   IF ~v.ok THEN PFail
                   ELSE LET m == SkipJsonWs(s, v.at)
                            all == (key.v :> v.v) @@ members
                        IN IF At(s, m) = COMMA
                           THEN ParseMembers(s, SkipJsonWs(s, m + 1), all)
                           ELSE IF At(s, m) = RBRACE
                           THEN POk(<<"obj", all>>, m + 1)
                           ELSE PFail

\* serde_json::from_str: one value, whitespace around it, and nothing else
json_from_str(s) ==
    LET v == ParseValue(s, SkipJsonWs(s, 1)) IN
    IF v.ok /\ SkipJsonWs(s, v.at) = Len(s) + 1 THEN v ELSE PFail

-----------------------------------------------------------------------------
(* escape_json_control_chars (src/src/lib.rs)                              *)

\* A test that knows the ASCII control characters only
is_control_Ascii(c) == c \in 0..31 \/ c = 127

\* char::is_control: the Unicode category Cc
is_control(c) == c \in 0..31 \/ c \in 127..159

\* A repair that puts a tab in the place of a control character it has no
\* escape for
ControlEscape_Tab(c) ==
    CASE c = NEWLINE -> <<BACKSLASH, LOWER_N>>
      [] c = CR -> <<BACKSLASH, LOWER_R>>
      [] c = TAB -> <<BACKSLASH, LOWER_T>>
      [] OTHER -> <<TAB>>

\* What a control character inside a string span is replaced by
ControlEscape(c) ==
    CASE c = NEWLINE -> <<BACKSLASH, LOWER_N>>
      [] c = CR -> <<BACKSLASH, LOWER_R>>
      [] c = TAB -> <<BACKSLASH, LOWER_T>>
      [] OTHER -> <<>>

RECURSIVE escape_from(_, _, _, _, _)
escape_from(s, i, in_string, escape_next, fixed) ==
    IF i > Len(s) THEN fixed
    ELSE LET c == s[i] IN
         IF escape_next
         THEN escape_from(s, i + 1, in_string, FALSE, Append(fixed, c))
         ELSE IF c = BACKSLASH
         THEN escape_from(s, i + 1, in_string, TRUE, Append(fixed, c))
         ELSE IF c = DQUOTE
         THEN escape_from(s, i + 1, ~in_string, FALSE, Append(fixed, c))
         ELSE IF in_string /\ is_control(c)
         THEN escape_from(s, i + 1, in_string, FALSE, fixed \o ControlEscape(c))
         ELSE escape_from(s, i + 1, in_string, FALSE, Append(fixed, c))

\* A repair that begins as if a string span were open
escape_json_control_chars_InsideString(s) ==
    escape_from(s, 1, TRUE, FALSE, <<>>)

escape_json_control_chars(s) == escape_from(s, 1, FALSE, FALSE, <<>>)

-----------------------------------------------------------------------------
(* str::trim, str::trim_start, str::find                                   *)

\* char::is_whitespace: the Unicode property White_Space
is_whitespace(c) ==
    \/ c \in 9..13
    \/ c \in {32, 133, 160, 5760, 8232, 8233, 8239, 8287, 12288}
    \/ c \in 8192..8202

RECURSIVE trim_start(_)
trim_start(s) ==
    IF s # <<>> /\ is_whitespace(Head(s)) THEN trim_start(Tail(s)) ELSE s

RECURSIVE trim_end(_)
trim_end(s) ==
    IF s # <<>> /\ is_whitespace(s[Len(s)])
    THEN trim_end(SubSeq(s, 1, Len(s) - 1)) ELSE s

trim(s) == trim_end(trim_start(s))

\* A search that returns the last occurrence instead of the first
RECURSIVE rfind_from(_, _, _)
rfind_from(s, pat, k) ==
    IF k < 1 THEN 0
    ELSE IF StartsAt(s, k, pat) THEN k
    ELSE rfind_from(s, pat, k - 1)

find_Last(s, pat) == rfind_from(s, pat, Len(s) + 1)

\* The index of the first occurrence of pat in s at or after k, 0 when
\* there is none
RECURSIVE find_from(_, _, _)
find_from(s, pat, k) ==
    IF k + Len(pat) - 1 > Len(s) THEN 0
    ELSE IF StartsAt(s, k, pat) THEN k
    ELSE find_from(s, pat, k + 1)

find(s, pat) == find_from(s, pat, 1)

-----------------------------------------------------------------------------
(* extract_until_statement_end                                             *)

StmtInit ==
    [result |-> <<>>, brace_depth |-> 0, bracket_depth |-> 0,
     in_string |-> FALSE, string_char |-> DQUOTE, escape_next |-> FALSE,
     stop |-> FALSE]

Push(st, ch) == [st EXCEPT !.result = Append(@, ch)]

Break(st) == [st EXCEPT !.stop = TRUE]

IsContinuation(c) == c \in {DOT, COMMA, PLUS, MINUS, STAR, SLASH}

\* The newline at s[i] ends the statement: nothing but whitespace follows,
\* or the next non-whitespace character continues no expression
NewlineEnds(s, i) ==
    LET trimmed == trim_start(SubSeq(s, i + 1, Len(s))) IN
    trimmed = <<>> \/ ~IsContinuation(Head(trimmed))

\* A scanner that closes a string at either quote character
closes_string_AnyQuote(st, ch) == ch \in {DQUOTE, SQUOTE}

\* if ch == string_char { in_string = false }
closes_string(st, ch) == ch = st.string_char

\* A scanner that looks at the brace depth only
at_top_BraceOnly(st) == st.brace_depth = 0

\* brace_depth == 0 && bracket_depth == 0
at_top(st) == st.brace_depth = 0 /\ st.bracket_depth = 0

\* One turn of the loop, on the character s[i]
StmtStep(st, s, i) ==
    LET ch == s[i]
        top == at_top(st)
    IN
    IF st.escape_next THEN [Push(st, ch) EXCEPT !.escape_next = FALSE]
    ELSE IF ch = BACKSLASH THEN [Push(st, ch) EXCEPT !.escape_next = TRUE]
    ELSE IF st.in_string
    THEN [Push(st, ch) EXCEPT !.in_string = ~closes_string(st, ch)]
    ELSE IF ch = DQUOTE \/ ch = SQUOTE
    THEN [Push(st, ch) EXCEPT !.in_string = TRUE, !.string_char = ch]
    ELSE CASE ch = LBRACE -> [Push(st, ch) EXCEPT !.brace_depth = @ + 1]
           [] ch = RBRACE -> [Push(st, ch) EXCEPT !.brace_depth = @ - 1]
           [] ch = LBRACKET -> [Push(st, ch) EXCEPT !.bracket_depth = @ + 1]
           [] ch = RBRACKET -> [Push(st, ch) EXCEPT !.bracket_depth = @ - 1]
           [] ch = SEMICOLON /\ top -> Break(st)
           [] ch = NEWLINE /\ top ->
                IF NewlineEnds(s, i) THEN Break(st) ELSE Push(st, ch)
           [] OTHER -> Push(st, ch)

\* The scanner's state when the loop is left
RECURSIVE StmtScan(_, _, _)
StmtScan(st, s, i) ==
    IF i > Len(s) \/ st.stop THEN st
    ELSE StmtScan(StmtStep(st, s, i), s, i + 1)

extract_until_statement_end(s) == StmtScan(StmtInit, s, 1).result

-----------------------------------------------------------------------------
(* extract_json_parse and extract_js_variable                              *)

\* JsValue::Json, JsValue::Raw, and Err
VarJson(v) == [ok |-> TRUE, kind |-> "Json", val |-> v, err |-> NoErr]
VarRaw(s) == [ok |-> TRUE, kind |-> "Raw", val |-> s, err |-> NoErr]
VarErr(e) == [ok |-> FALSE, kind |-> "", val |-> <<>>, err |-> e]

\* "JSON.parse("
JSON_PARSE == <<74, 83, 79, 78, 46, 112, 97, 114, 115, 101, 40>>

\* A resolver that returns the repaired text as the raw value
Resolve_RawRepaired(text) ==
    LET fixed == escape_json_control_chars(text) IN
    IF json_from_str(text).ok THEN VarJson(json_from_str(text).v)
    ELSE IF json_from_str(fixed).ok THEN VarJson(json_from_str(fixed).v)
    ELSE VarRaw(fixed)

\* Direct parse, then the parse of the repaired text, then the raw text
Resolve(text) ==
    LET direct == json_from_str(text)
        fixed == json_from_str(escape_json_control_chars(text))
    IN IF direct.ok THEN VarJson(direct.v)
       ELSE IF fixed.ok THEN VarJson(fixed.v)
       ELSE VarRaw(text)

\* The number of characters of `content` before the closing quote: the
\* whole of it when no unescaped quote_char occurs
RECURSIVE ArgumentEnd(_, _, _, _)
ArgumentEnd(content, quote_char, i, escape_next) ==
    IF i > Len(content) THEN Len(content)
    ELSE IF escape_next THEN ArgumentEnd(content, quote_char, i + 1, FALSE)
    ELSE IF content[i] = BACKSLASH
    THEN ArgumentEnd(content, quote_char, i + 1, TRUE)
    ELSE IF content[i] = quote_char THEN i - 1
    ELSE ArgumentEnd(content, quote_char, i + 1, FALSE)

\* A scan that stops at the first quote_char, escaped or not
RECURSIVE ArgumentEnd_NoEscape(_, _, _, _)
ArgumentEnd_NoEscape(content, quote_char, i, escape_next) ==
    IF i > Len(content) THEN Len(content)
    ELSE IF content[i] = quote_char THEN i - 1
    ELSE ArgumentEnd_NoEscape(content, quote_char, i + 1, FALSE)

\* An argument cut at the first quote_char, escaped or not
encoded_content_NoEscape(after_parse) ==
    SubSeq(Tail(after_parse), 1,
           ArgumentEnd_NoEscape(Tail(after_parse), Head(after_parse), 1,
                                FALSE))

\* let encoded_content = &content[..end_pos], for the text that begins
\* with the opening quote
encoded_content_of(after_parse) ==
    SubSeq(Tail(after_parse), 1,
           ArgumentEnd(Tail(after_parse), Head(after_parse), 1, FALSE))

\* A test that takes any character for a quote
is_quote_Any(c) == TRUE

\* !(quote_char != '\'' && quote_char != '"')
is_quote(c) == c = SQUOTE \/ c = DQUOTE

\* An argument that is parsed without being decoded
DecodeArgument_Skip(encoded_content) == Ok(encoded_content)

\* decode_js_string(encoded_content)?
DecodeArgument(encoded_content) == decode_js_string(encoded_content)

extract_json_parse(inp) ==
    IF ~StartsAt(inp, 1, JSON_PARSE)
    THEN VarErr([msg |-> "Expected JSON.parse(", esc |-> "", quoted |-> <<>>])
    ELSE LET after_parse == SubSeq(inp, Len(JSON_PARSE) + 1, Len(inp)) IN
         IF after_parse = <<>>
         THEN VarErr([msg |-> "Expected quote after JSON.parse(", esc |-> "",
                      quoted |-> <<>>])
         ELSE LET quote_char == Head(after_parse) IN
              IF ~is_quote(quote_char)
              THEN VarErr([msg |-> "Expected ' or \" after JSON.parse(, got",
                           esc |-> "", quoted |-> <<quote_char>>])
              ELSE LET decoded ==
                           DecodeArgument(encoded_content_of(after_parse))
                   IN IF decoded.ok THEN Resolve(decoded.val)
                      ELSE VarErr(decoded.err)

\* format!("{} = ", var_pattern.trim())
pattern_with_eq(var_pattern) == trim(var_pattern) \o <<SPACE, EQUALS, SPACE>>

\* A missing pattern read as a match at the start of the script
\* (unwrap_or(0) in place of ok_or_else)
start_pos_OrStart(script_content, var_pattern) ==
    IF find(script_content, pattern_with_eq(var_pattern)) = 0 THEN 1
    ELSE find(script_content, pattern_with_eq(var_pattern))

\* script_content.find(&pattern_with_eq): 0 when the pattern is absent
start_pos(script_content, var_pattern) ==
    find(script_content, pattern_with_eq(var_pattern))

\* The text after the pattern taken whole, not cut at the statement's end
StatementValue_WholeRest(remaining) == trim(remaining)

\* extract_until_statement_end(remaining)?.trim()
StatementValue(remaining) == trim(extract_until_statement_end(remaining))

\* What the resolver makes of the text after the matched pattern
resolve_remaining(remaining) ==
    IF StartsAt(trim_start(remaining), 1, JSON_PARSE)
    THEN extract_json_parse(trim_start(remaining))
    ELSE Resolve(StatementValue(remaining))

extract_js_variable(script_content, var_pattern) ==
    LET at == start_pos(script_content, var_pattern) IN
    IF at = 0
    THEN VarErr([msg |-> "Variable pattern not found", esc |-> "",
                 quoted |-> var_pattern])
    ELSE LET value_start == at + Len(pattern_with_eq(var_pattern)) IN
         resolve_remaining(SubSeq(script_content, value_start,
                                  Len(script_content)))

-----------------------------------------------------------------------------
(* Inputs: texts put together from a few fragments.                        *)

RECURSIVE Flatten(_)
Flatten(fs) == IF fs = <<>> THEN <<>> ELSE Head(fs) \o Flatten(Tail(fs))

\* All texts made of at most n fragments of F
Texts(F, n) == { Flatten(fs) : fs \in UNION { [1..k -> F] : k \in 0..n } }

NoResult == Err([msg |-> "not called", esc |-> "", quoted |-> <<>>])

\* All texts made of a head of H followed by at most n fragments of F
HeadedTexts(H, F, n) == { h \o b : h \in H, b \in Texts(F, n) }

-----------------------------------------------------------------------------
(* The decoder, called on every text of DecodeTexts.                       *)

MaxDecodeFrags == 5

DecodeFrags ==
    { <<BACKSLASH>>, <<LOWER_X>>, <<LOWER_U>>, <<52>>, <<52, 49>>,
      <<100, 56>>, <<PLUS>>, <<233>> }

DecodeTexts == Texts(DecodeFrags, MaxDecodeFrags)

InitDecode ==
    /\ input \in DecodeTexts
    /\ pattern = <<>>
    /\ pc = "ready"
    /\ result = NoResult

CallDecode ==
    /\ pc = "ready"
    /\ result' = decode_js_string(input)
    /\ pc' = "done"
    /\ UNCHANGED <<input, pattern>>

NextDecode == CallDecode

SpecDecode == InitDecode /\ [][NextDecode]_vars

-----------------------------------------------------------------------------
(* The variable resolver, called on scripts that hold the assignment       *)
(* "v = " zero or more times, with the pattern given bare and with         *)
(* whitespace around it.                                                   *)

NoVarResult == VarErr([msg |-> "not called", esc |-> "", quoted |-> <<>>])

\* "v = "
V_EQ == <<118, SPACE, EQUALS, SPACE>>

CallExtractVariable ==
    /\ pc = "ready"
    /\ result' = extract_js_variable(input, pattern)
    /\ pc' = "done"
    /\ UNCHANGED <<input, pattern>>

NextVar == CallExtractVariable

\* Scripts about where the pattern is found
MaxFindFrags == 5

FindFrags == { V_EQ, <<118>>, <<SPACE>>, <<EQUALS>>, <<49>>, <<SEMICOLON>> }

FindPatterns == { <<118>>, <<SPACE, 118>>, <<118, SPACE>> }

InitFind ==
    /\ input \in Texts(FindFrags, MaxFindFrags)
    /\ pattern \in FindPatterns
    /\ pc = "ready"
    /\ result = NoVarResult

SpecFind == InitFind /\ [][NextVar]_vars

\* Scripts about where a statement ends and what its text resolves to
MaxStmtFrags == 5

StmtFrags ==
    { V_EQ, <<49>>, <<SEMICOLON>>, <<NEWLINE>>, <<DQUOTE>>, <<TAB>>,
      <<LBRACE>>, <<RBRACE>>, <<PLUS>> }

StmtPatterns == { <<118>>, <<SPACE, 118>> }

InitStmt ==
    /\ input \in Texts(StmtFrags, MaxStmtFrags)
    /\ pattern \in StmtPatterns
    /\ pc = "ready"
    /\ result = NoVarResult

SpecStmt == InitStmt /\ [][NextVar]_vars

\* Scripts that assign a JSON.parse( call, followed by a few fragments of
\* an argument
MaxParseFrags == 5

ParseHeads ==
    { V_EQ \o JSON_PARSE,
      V_EQ \o <<SPACE>> \o JSON_PARSE,
      V_EQ \o V_EQ \o JSON_PARSE }

ParseFrags ==
    { <<SQUOTE>>, <<DQUOTE>>, <<BACKSLASH>>, <<LOWER_X>>, <<51, 49>>, <<TAB>> }

ParsePatterns == { <<118>>, <<SPACE, 118>> }

InitParse ==
    /\ input \in HeadedTexts(ParseHeads, ParseFrags, MaxParseFrags)
    /\ pattern \in ParsePatterns
    /\ pc = "ready"
    /\ result = NoVarResult

SpecParse == InitParse /\ [][NextVar]_vars

-----------------------------------------------------------------------------
(* Claims about decode_js_string, checked under SpecDecode.                *)

HasBackslash(s) == \E k \in 1..Len(s) : s[k] = BACKSLASH

\* The index of the first backslash of s, 0 when there is none: the first
\* escape the left-to-right scan meets.
FirstBackslash(s) ==
    IF HasBackslash(s)
    THEN CHOOSE k \in 1..Len(s) :
            s[k] = BACKSLASH /\ \A j \in 1..(k - 1) : s[j] # BACKSLASH
    ELSE 0

\* The spec's MalformedEscape: one of the decoder's five errors
IsMalformedEscape(r) ==
    /\ ~r.ok
    /\ r.err.msg \in { "Incomplete hex escape", "Invalid hex escape",
                       "Incomplete unicode escape", "Invalid unicode escape",
                       "Invalid unicode code point" }

\* What the call returns when the escape at the first backslash emits the
\* character c and the scan resumes with the text `rest`.
AfterFirstEscape(s, c, rest) ==
    LET d == decode_js_string(rest) IN
    IF d.ok THEN Ok(SubSeq(s, 1, FirstBackslash(s) - 1) \o <<c>> \o d.val)
    ELSE Err(d.err)

\* C7: decode_js_string is the identity on every input without a backslash.
C7_IdentityWithoutBackslash ==
    (pc = "done" /\ ~HasBackslash(input)) => result = Ok(input)

C7_Witness ==
    /\ pc = "done"
    /\ ~HasBackslash(input)
    /\ Len(input) >= 4
    /\ \E k \in 1..Len(input) : input[k] = LOWER_U
    /\ result.ok

\* C8: the \x rule. When the two characters after \x are both hex digits
\* the escape emits the character with that code; in every other case
\* (fewer than two characters remain, or one of the two is no hex digit,
\* a sign character included) the call fails with MalformedEscape.
C8_HexRule ==
    LET p == FirstBackslash(input) IN
    (pc = "done" /\ p # 0 /\ p < Len(input) /\ input[p + 1] = LOWER_X) =>
        LET hh == Take(input, p + 2, 2) IN
        IF Len(hh) = 2 /\ IsHexDigit(hh[1]) /\ IsHexDigit(hh[2])
        THEN result = AfterFirstEscape(input,
                          16 * HexValue(hh[1]) + HexValue(hh[2]),
                          SubSeq(input, p + 4, Len(input)))
        ELSE IsMalformedEscape(result)

\* C9: the \u rule. When the four characters after \u are all hex digits
\* naming a Unicode scalar value the escape emits that character; when
\* fewer than four remain, one of them is no hex digit, or the value is a
\* surrogate, the call fails with MalformedEscape.
C9_UnicodeRule ==
    LET p == FirstBackslash(input) IN
    (pc = "done" /\ p # 0 /\ p < Len(input) /\ input[p + 1] = LOWER_U) =>
        LET hh == Take(input, p + 2, 4) IN
        IF /\ Len(hh) = 4
           /\ \A k \in 1..4 : IsHexDigit(hh[k])
           /\ char_from_u32(HexDigitsValue(hh, 0))
        THEN result = AfterFirstEscape(input, HexDigitsValue(hh, 0),
                          SubSeq(input, p + 6, Len(input)))
        ELSE IsMalformedEscape(result)

\* C10: the double-escape rule. Backslash, backslash, u, HHHH decodes to the
\* same output, or the same failure, as backslash, u, HHHH; two backslashes
\* not followed by u are consumed together and emit exactly one backslash,
\* and the scan resumes at the character after them.
C10_DoubleEscape ==
    LET p == FirstBackslash(input) IN
    (pc = "done" /\ p # 0 /\ p < Len(input) /\ input[p + 1] = BACKSLASH) =>
        LET rest == SubSeq(input, p + 2, Len(input)) IN
        IF rest # <<>> /\ Head(rest) = LOWER_U
        THEN LET single == decode_js_string(SubSeq(input, 1, p) \o rest) IN
             /\ result.ok = single.ok
             /\ result.val = single.val
             /\ result.err.msg = single.err.msg
             /\ result.err.quoted = single.err.quoted
        ELSE result = AfterFirstEscape(input, BACKSLASH, rest)

C10_Witness ==
    LET p == FirstBackslash(input) IN
    /\ pc = "done"
    /\ p # 0 /\ p + 6 <= Len(input)
    /\ input[p + 1] = BACKSLASH /\ input[p + 2] = LOWER_U
    /\ result.ok
    /\ Len(result.val) = Len(input) - 6

-----------------------------------------------------------------------------
(* Claims about extract_js_variable, checked under SpecFind.               *)

\* The indices at which the text `needle` occurs in s
Occurrences(s, needle) == { k \in 1..Len(s) : StartsAt(s, k, needle) }

\* The least index of a non-empty set of indices
Leftmost(K) == CHOOSE k \in K : \A j \in K : k <= j

\* "<pattern> = " with the pattern as given, and with the pattern trimmed
GivenNeedle == pattern \o <<SPACE, EQUALS, SPACE>>
TrimmedNeedle == trim(pattern) \o <<SPACE, EQUALS, SPACE>>

IsNotFound(r) == ~r.ok /\ r.err.msg = "Variable pattern not found"

\* The text of s after the leftmost occurrence of needle
AfterLeftmost(s, needle) ==
    SubSeq(s, Leftmost(Occurrences(s, needle)) + Len(needle), Len(s))

-----------------------------------------------------------------------------
(* Claims about extract_js_variable, checked under SpecStmt.               *)

\* The index in `rem` of the semicolon at which the statement scan of
\* `rem` ends, 0 when it ends at a newline or at the end of the text
StatementSemicolon(rem) ==
    LET st == StmtScan(StmtInit, rem, 1) IN
    IF st.stop /\ rem[Len(st.result) + 1] = SEMICOLON
    THEN Len(st.result) + 1
    ELSE 0

\* The script cut down to its target declaration: from the leftmost
\* occurrence of needle to the semicolon that ends the statement; <<>>
\* when needle does not occur or no semicolon ends the statement
TargetDeclaration(s, needle) ==
    IF Occurrences(s, needle) = {} THEN <<>>
    ELSE LET k == Leftmost(Occurrences(s, needle))
             e == StatementSemicolon(AfterLeftmost(s, needle))
         IN IF e = 0 THEN <<>> ELSE SubSeq(s, k, k + Len(needle) - 1 + e)

C5_ParseRepairRaw ==
    (/\ pc = "done"
     /\ Occurrences(input, TrimmedNeedle) # {}
     /\ ~StartsAt(trim_start(AfterLeftmost(input, TrimmedNeedle)), 1, JSON_PARSE))
    => LET rhs == trim(extract_until_statement_end(
                          AfterLeftmost(input, TrimmedNeedle)))
           direct == json_from_str(rhs)
           repaired == json_from_str(escape_json_control_chars(rhs))
       IN /\ direct.ok => result = VarJson(direct.v)
          /\ (~direct.ok /\ repaired.ok) => result = VarJson(repaired.v)
          /\ (~direct.ok /\ ~repaired.ok) => result = VarRaw(rhs)

\* Both parses fail on a text that the repair would change
C5_Witness ==
    /\ pc = "done"
    /\ Occurrences(input, TrimmedNeedle) # {}
    /\ result.ok /\ result.kind = "Raw"
    /\ escape_json_control_chars(result.val) # result.val
    /\ Len(result.val) + Len(TrimmedNeedle) + 2 <= Len(input)

-----------------------------------------------------------------------------
(* Claims about extract_js_variable, checked under SpecParse.              *)

\* C1: once "<pattern> = " occurs in the script the call returns a value
\* and never an error, whatever text follows the match; the
\* variable-not-found error is the only error the call can return.
C1_NoErrorOnceFound ==
    pc = "done" =>
        /\ Occurrences(input, GivenNeedle) # {} => result.ok
        /\ ~result.ok => IsNotFound(result)

\* The character of s at index i is taken by a backslash escape: an odd
\* number of backslashes stands right before it
RECURSIVE BackslashesBefore(_, _)
BackslashesBefore(s, i) ==
    IF At(s, i - 1) = BACKSLASH THEN 1 + BackslashesBefore(s, i - 1) ELSE 0

IsEscapedAt(s, i) == BackslashesBefore(s, i) % 2 = 1

\* For a text that starts with JSON.parse( and a quote: the index of the
\* quote that closes the argument, 0 when the argument is not closed or
\* the text does not start so
ClosingQuote(t) ==
    LET from == Len(JSON_PARSE) + 2
        q == At(t, from - 1)
        closers == { i \in from..Len(t) :
                        t[i] = q /\ ~IsEscapedAt(SubSeq(t, from, Len(t)), i - from + 1) }
    IN IF StartsAt(t, 1, JSON_PARSE) /\ q \in {SQUOTE, DQUOTE} /\ closers # {}
       THEN Leftmost(closers)
       ELSE 0

\* What C6 says of the text `rem` that follows the match: when it is, after
\* leading whitespace, JSON.parse( and a quoted string whose decoded body
\* is JSON, the result is that JSON value.
ParsesQuotedArgument(rem, res) ==
    LET t == trim_start(rem)
        close == ClosingQuote(t)
    IN close # 0 =>
        LET d == decode_js_string(SubSeq(t, Len(JSON_PARSE) + 2, close - 1)) IN
        (d.ok /\ json_from_str(d.val).ok) => res = VarJson(json_from_str(d.val).v)

C6_WitnessFor(q) ==
    LET rem == AfterLeftmost(input, TrimmedNeedle)
        t == trim_start(rem)
    IN /\ pc = "done"
       /\ Head(rem) = SPACE
       /\ ClosingQuote(t) # 0
       /\ At(t, Len(JSON_PARSE) + 1) = q
       /\ HasBackslash(t)
       /\ result.ok /\ result.kind = "Json"

C6_WitnessDoubleQuote == C6_WitnessFor(DQUOTE)

-----------------------------------------------------------------------------
(* The decoder, called on texts of backslashes and the letters of the      *)
(* single-character escapes.                                               *)

MaxEscapeFrags == 3

EscapeFrags ==
    { <<BACKSLASH>>, <<LOWER_N>>, <<LOWER_R>>, <<LOWER_T>>, <<DQUOTE>>,
      <<SQUOTE>>, <<LOWER_B>>, <<LOWER_F>>, <<LOWER_V>>, <<DIGIT_0>>,
      <<MINUS>>, <<SLASH>>, <<97>>, <<233>>, <<NEWLINE>> }

InitEscape ==
    /\ input \in Texts(EscapeFrags, MaxEscapeFrags)
    /\ pattern = <<>>
    /\ pc = "ready"
    /\ result = NoResult

SpecEscape == InitEscape /\ [][NextDecode]_vars

\* The character the claim gives for backslash, X
C11_Image(X) ==
    IF X = LOWER_N THEN 10
    ELSE IF X = LOWER_R THEN 13
    ELSE IF X = LOWER_T THEN 9
    ELSE IF X = LOWER_B THEN 8
    ELSE IF X = LOWER_F THEN 12
    ELSE IF X = LOWER_V THEN 11
    ELSE IF X = DIGIT_0 THEN 0
    ELSE X

\* C11: single-character escapes. A backslash followed by a character X
\* other than x, u or backslash uses exactly those two characters and emits
\* exactly one: the control or quote character for n, r, t, ", ', b, f, v
\* and 0, and X itself for every other X; a backslash that is the last
\* character of the input emits one backslash.
C11_SingleCharacterEscapes ==
    LET p == FirstBackslash(input) IN
    (pc = "done" /\ p # 0) =>
        IF p = Len(input) THEN result = Ok(input)
        ELSE input[p + 1] \notin {LOWER_X, LOWER_U, BACKSLASH} =>
                 result = AfterFirstEscape(input, C11_Image(input[p + 1]),
                              SubSeq(input, p + 2, Len(input)))

C11_Witness ==
    LET p == FirstBackslash(input) IN
    /\ pc = "done"
    /\ p # 0 /\ p + 1 < Len(input)
    /\ input[p + 1] = LOWER_V
    /\ input[Len(input)] = BACKSLASH
    /\ result = Ok(SubSeq(input, 1, p - 1) \o <<VTAB, BACKSLASH>>)

-----------------------------------------------------------------------------
(* Totality of decode_js_string, checked under SpecDecode.                 *)

\* The four characters of a \u escape are hex digits naming a scalar value
WellFormedUnicode(hh) ==
    /\ Len(hh) = 4
    /\ \A k \in 1..4 : IsHexDigit(hh[k])
    /\ char_from_u32(HexDigitsValue(hh, 0))

\* The left-to-right scan of s from i meets a malformed \x, \u or
\* double-escaped \u escape, by the rules of C8, C9 and C10.
RECURSIVE HasMalformedEscape(_, _)
HasMalformedEscape(s, i) ==
    IF i > Len(s) THEN FALSE
    ELSE IF s[i] # BACKSLASH \/ i = Len(s) THEN HasMalformedEscape(s, i + 1)
    ELSE IF s[i + 1] = LOWER_X
    THEN LET hh == Take(s, i + 2, 2) IN
         IF Len(hh) = 2 /\ IsHexDigit(hh[1]) /\ IsHexDigit(hh[2])
         THEN HasMalformedEscape(s, i + 4) ELSE TRUE
    ELSE IF s[i + 1] = LOWER_U
    THEN IF WellFormedUnicode(Take(s, i + 2, 4))
         THEN HasMalformedEscape(s, i + 6) ELSE TRUE
    ELSE IF s[i + 1] = BACKSLASH /\ At(s, i + 2) = LOWER_U
    THEN IF WellFormedUnicode(Take(s, i + 3, 4))
         THEN HasMalformedEscape(s, i + 7) ELSE TRUE
    ELSE HasMalformedEscape(s, i + 2)

\* C12: decode_js_string is total apart from malformed \x, \u and
\* double-escaped \u escapes: it succeeds on every input without such an
\* escape, and on every input with one it returns an error and no part of
\* the decoded text.
C12_TotalApartFromMalformed ==
    pc = "done" =>
        IF HasMalformedEscape(input, 1)
        THEN ~result.ok /\ result.val = <<>>
        ELSE result.ok

-----------------------------------------------------------------------------
(* extract_nextjs_rsc, find_object_start_plain and                         *)
(* extract_balanced_json_with_escaped_strings                              *)

COLON == 58

\* Option<usize> and Option<String>
NoIndex == [some |-> FALSE, val |-> 0]
SomeIndex(i) == [some |-> TRUE, val |-> i]
NoText == [some |-> FALSE, val |-> <<>>]
SomeText(s) == [some |-> TRUE, val |-> s]

\* for i in (0..chars.len()).rev(): chars[i] is text[i + 1]
RECURSIVE object_start_from(_, _, _)
object_start_from(text, i, depth) ==
    IF i < 0 THEN NoIndex
    ELSE LET c == text[i + 1] IN
         IF c = RBRACE THEN object_start_from(text, i - 1, depth + 1)
         ELSE IF c = LBRACE
         THEN IF depth = 0 THEN SomeIndex(i)
              ELSE object_start_from(text, i - 1, depth - 1)
         ELSE object_start_from(text, i - 1, depth)

\* The index, counted in characters from 0, of the enclosing opening brace
find_object_start_plain(text) == object_start_from(text, Len(text) - 1, 0)

\* The byte offset at which the character after the first k characters
\* of s starts
ByteOffset(s, k) == ByteLen(SubSeq(s, 1, k))

\* str::is_char_boundary
is_char_boundary(s, b) == \E k \in 0..Len(s) : ByteOffset(s, k) = b

\* &s[b..] for a byte offset b that is a character boundary; at any other
\* offset the slice panics
SliceFrom(s, b) ==
    LET k == CHOOSE k \in 0..Len(s) : ByteOffset(s, k) = b
    IN SubSeq(s, k + 1, Len(s))

\* A scan that takes a bare quote for a string boundary as well
is_boundary_escaped_BareQuote(text, i) ==
    \/ text[i] = DQUOTE
    \/ text[i] = BACKSLASH /\ At(text, i + 1) = DQUOTE

\* i + 1 < bytes.len() && bytes[i] == b'\\' && bytes[i + 1] == b'"'
is_boundary_escaped(text, i) ==
    text[i] = BACKSLASH /\ At(text, i + 1) = DQUOTE

\* bytes[i] == b'"' && (i == 0 || bytes[i - 1] != b'\\'); the loop starts
\* after the first character
is_boundary_literal(text, i) ==
    text[i] = DQUOTE /\ text[i - 1] # BACKSLASH

\* A scan that skips the character after a backslash without asking
\* whether there is one
is_skipped_NoBound(text, i, in_string, escaped_strings) ==
    /\ in_string /\ text[i] = BACKSLASH
    /\ escaped_strings => At(text, i + 1) = BACKSLASH

\* in_string && bytes[i] == b'\\' && i + 1 < bytes.len(), and in the
\* escaped convention bytes[i + 1] == b'\\' too
is_skipped(text, i, in_string, escaped_strings) ==
    /\ in_string /\ text[i] = BACKSLASH /\ i + 1 <= Len(text)
    /\ escaped_strings => text[i + 1] = BACKSLASH

\* The depth after the character c, read outside a string
depth_after(depth, c, open, close) ==
    IF c = open THEN depth + 1
    ELSE IF c = close THEN depth - 1
    ELSE depth

\* One turn of the while loop, from the variables i, depth and in_string
balanced_step(text, st, escaped_strings, open, close) ==
    IF escaped_strings /\ is_boundary_escaped(text, st.i)
    THEN [st EXCEPT !.i = @ + 2, !.in_string = ~@]
    ELSE IF ~escaped_strings /\ is_boundary_literal(text, st.i)
    THEN [st EXCEPT !.i = @ + 1, !.in_string = ~@]
    ELSE IF is_skipped(text, st.i, st.in_string, escaped_strings)
    THEN [st EXCEPT !.i = @ + 2]
    ELSE IF st.in_string THEN [st EXCEPT !.i = @ + 1]
    ELSE [st EXCEPT !.i = @ + 1,
                    !.depth = depth_after(@, text[st.i], open, close)]

\* The while loop of the balanced scanner. The index i counts from 1, and a
\* character of several bytes is passed over as one: none of its bytes is
\* a quote, a backslash, a brace or a bracket.
RECURSIVE balanced_from(_, _, _, _, _, _, _)
RECURSIVE balanced_next(_, _, _, _, _)
balanced_next(text, st, escaped_strings, open, close) ==
    balanced_from(text, st.i, st.depth, st.in_string, escaped_strings,
                  open, close)

balanced_from(text, i, depth, in_string, escaped_strings, open, close) ==
    IF ~(i <= Len(text) /\ depth > 0)
    THEN IF depth = 0 THEN SomeText(SubSeq(text, 1, i - 1)) ELSE NoText
    ELSE balanced_next(text,
                       balanced_step(text,
                                     [i |-> i, depth |-> depth,
                                      in_string |-> in_string],
                                     escaped_strings, open, close),
                       escaped_strings, open, close)

extract_balanced_json_with_escaped_strings(text, escaped_strings) ==
    IF text = <<>> \/ (text[1] # LBRACE /\ text[1] # LBRACKET) THEN NoText
    ELSE IF text[1] = LBRACE
    THEN balanced_from(text, 2, 1, FALSE, escaped_strings, LBRACE, RBRACE)
    ELSE balanced_from(text, 2, 1, FALSE, escaped_strings, LBRACKET, RBRACKET)

\* str::replace: every occurrence of `from`, left to right, none overlapping
RECURSIVE replace(_, _, _)
replace(s, from, to) ==
    IF s = <<>> THEN <<>>
    ELSE IF StartsAt(s, 1, from)
    THEN to \o replace(SubSeq(s, Len(from) + 1, Len(s)), from, to)
    ELSE <<Head(s)>> \o replace(Tail(s), from, to)

\* The two key patterns: \"<key>\": and "<key>":
escaped_pattern(json_key) ==
    <<BACKSLASH, DQUOTE>> \o json_key \o <<BACKSLASH, DQUOTE, COLON>>

literal_pattern(json_key) == <<DQUOTE>> \o json_key \o <<DQUOTE, COLON>>

\* An extractor that keeps every candidate that parses
has_key_Always(json_val, json_key) == TRUE

\* json_val.get(json_key).is_some(): an object with the member json_key
has_key(json_val, json_key) ==
    json_val[1] = "obj" /\ json_key \in DOMAIN json_val[2]

\* An extractor that drops a value it has already collected
push_Dedup(results, vals) ==
    IF \E k \in 1..Len(results) : <<results[k]>> = vals
    THEN results ELSE results \o vals

\* An extractor that puts each new value in front of those collected
push_Front(results, vals) == vals \o results

\* results.push(json_val), for the one value a candidate adds, or none
push(results, vals) == results \o vals

\* if json_val.get(json_key).is_some() { results.push(json_val) }
KeepValue(json_val, json_key) ==
    IF has_key(json_val, json_key) THEN <<json_val>> ELSE <<>>

\* The parse of the repaired text
KeepRepaired(fixed, json_key) ==
    IF fixed.ok THEN KeepValue(fixed.v, json_key) ELSE <<>>

\* The direct parse, else the parse of the repaired text
KeepParsed(direct, decoded, json_key) ==
    IF direct.ok THEN KeepValue(direct.v, json_key)
    ELSE KeepRepaired(json_from_str(escape_json_control_chars(decoded)),
                      json_key)

\* match decode_js_string(&unescaped) { Ok(d) => d, Err(_) => unescaped }
DecodedOr(d, unescaped) == IF d.ok THEN d.val ELSE unescaped

KeepDecoded(decoded, json_key) ==
    KeepParsed(json_from_str(decoded), decoded, json_key)

KeepUnescaped(unescaped, json_key) ==
    KeepDecoded(DecodedOr(decode_js_string(unescaped), unescaped), json_key)

\* What a balanced region adds to the results: its value when it parses,
\* directly or after repair, and has the key
Keep(json_str, is_escaped, json_key) ==
    KeepUnescaped(IF is_escaped
                  THEN replace(json_str, <<BACKSLASH, DQUOTE>>, <<DQUOTE>>)
                  ELSE json_str,
                  json_key)

\* The call returns Ok(results), or aborts with a panic
RscOk(results) == [panic |-> FALSE, results |-> results]
RscPanic == [panic |-> TRUE, results |-> <<>>]

\* if let Some(json_str) = extract_balanced_json_with_escaped_strings(..)
KeepFound(json_str, is_escaped, json_key) ==
    IF json_str.some THEN RscOk(Keep(json_str.val, is_escaped, json_key))
    ELSE RscOk(<<>>)

\* if let Some(obj_start) = find_object_start_plain(before): the index
\* counted in characters is used as a byte offset into the script
OccurrenceFrom(script_content, json_key, is_escaped, obj_start) ==
    IF ~obj_start.some THEN RscOk(<<>>)
    ELSE IF ~is_char_boundary(script_content, obj_start.val) THEN RscPanic
    ELSE KeepFound(extract_balanced_json_with_escaped_strings(
                       SliceFrom(script_content, obj_start.val), is_escaped),
                   is_escaped, json_key)

\* What the key occurrence at abs_pos (counted from 1) adds to the results
Occurrence(script_content, json_key, is_escaped, abs_pos) ==
    OccurrenceFrom(script_content, json_key, is_escaped,
        find_object_start_plain(SubSeq(script_content, 1, abs_pos - 1)))

RECURSIVE scan_pattern(_, _, _, _, _, _)

\* The rest of the loop body: the occurrence's values are pushed and the
\* search goes on after the pattern
scan_next(script_content, json_key, pat, is_escaped, abs_pos, results, o) ==
    IF o.panic THEN RscPanic
    ELSE scan_pattern(script_content, json_key, pat, is_escaped,
                      abs_pos + Len(pat), push(results, o.results))

\* One turn of the loop; abs_pos is 0 when the pattern is not found
scan_found(script_content, json_key, pat, is_escaped, abs_pos, results) ==
    IF abs_pos = 0 THEN RscOk(results)
    ELSE scan_next(script_content, json_key, pat, is_escaped, abs_pos, results,
             Occurrence(script_content, json_key, is_escaped, abs_pos))

\* while let Some(key_pos) = script_content[search_start..].find(pattern)
scan_pattern(script_content, json_key, pat, is_escaped, search_start, results) ==
    scan_found(script_content, json_key, pat, is_escaped,
               find_from(script_content, pat, search_start), results)

\* The second turn of for (pattern, is_escaped) in &patterns
scan_literal(script_content, json_key, esc) ==
    IF esc.panic THEN RscPanic
    ELSE scan_pattern(script_content, json_key, literal_pattern(json_key),
                      FALSE, 1, esc.results)

extract_nextjs_rsc(script_content, json_key) ==
    scan_literal(script_content, json_key,
        scan_pattern(script_content, json_key, escaped_pattern(json_key),
                     TRUE, 1, <<>>))

-----------------------------------------------------------------------------
(* The extractor, called with the key k on scripts put together from       *)
(* payload objects in both quoting conventions, their parts, brackets and  *)
(* a two-byte character.                                                   *)

MaxRscFrags == 4

\* The key k
KEY_K == <<107>>

\* {"k":1}
LiteralPayload == <<LBRACE>> \o literal_pattern(KEY_K) \o <<49, RBRACE>>

\* {\"k\":2}
EscapedPayload == <<LBRACE>> \o escaped_pattern(KEY_K) \o <<50, RBRACE>>

RscFrags ==
    { LiteralPayload, EscapedPayload, <<LBRACE>>, <<RBRACE>>,
      literal_pattern(KEY_K) \o <<49>>,
      literal_pattern(KEY_K) \o <<49, COMMA>>,
      <<233>>, <<LBRACKET>>, <<RBRACKET>> }

NoRscResult == [panic |-> FALSE, results |-> <<>>]

InitRsc ==
    /\ input \in Texts(RscFrags, MaxRscFrags)
    /\ pattern = KEY_K
    /\ pc = "ready"
    /\ result = NoRscResult

CallExtractRsc ==
    /\ pc = "ready"
    /\ result' = extract_nextjs_rsc(input, pattern)
    /\ pc' = "done"
    /\ UNCHANGED <<input, pattern>>

NextRsc == CallExtractRsc

SpecRsc == InitRsc /\ [][NextRsc]_vars

-----------------------------------------------------------------------------
(* Claims about extract_nextjs_rsc, checked under SpecRsc.                 *)

\* The positions at which the key pattern of a convention occurs
KeyOccurrences(s, key, is_escaped) ==
    Occurrences(s, IF is_escaped THEN escaped_pattern(key)
                   ELSE literal_pattern(key))

\* What the occurrence at p yields when it is taken alone
KeptAt(s, key, is_escaped, p) == Occurrence(s, key, is_escaped, p).results

\* The values kept for the key occurrences K of one convention, listed by
\* position
RECURSIVE KeptByPosition(_, _, _, _)
KeptByPosition(s, key, is_escaped, K) ==
    IF K = {} THEN <<>>
    ELSE LET p == Leftmost(K) IN
         KeptAt(s, key, is_escaped, p)
             \o KeptByPosition(s, key, is_escaped, K \ {p})

IsObjectWithKey(v, key) == v[1] = "obj" /\ key \in DOMAIN v[2]

\* C13: extract_nextjs_rsc never errors and never aborts: for every script,
\* also one with a character of several bytes before a key occurrence, it
\* returns a list, and the list is empty when no key pattern occurs.
C13_NeverAborts ==
    pc = "done" =>
        /\ ~result.panic
        /\ ( KeyOccurrences(input, pattern, TRUE) = {}
             /\ KeyOccurrences(input, pattern, FALSE) = {} )
               => result.results = <<>>

\* C14: every value in the returned list is a JSON object that has the key
\* as one of its top-level members.
C14_OnlyObjectsWithKey ==
    (pc = "done" /\ ~result.panic) =>
        \A k \in 1..Len(result.results) :
            IsObjectWithKey(result.results[k], pattern)

C14_Witness ==
    /\ pc = "done"
    /\ ~result.panic
    /\ Len(result.results) >= 1
    /\ \E p \in KeyOccurrences(input, pattern, FALSE) :
           KeptAt(input, pattern, FALSE, p) = <<>>

\* The text s[a..b] is a well-formed JSON object in the literal-quote
\* convention with the key as a top-level member and no other brace
\* between its opening brace and the key
IsLiteralPayloadAt(s, key, a, b) ==
    LET sub == SubSeq(s, a, b)
        v == json_from_str(sub)
    IN /\ s[a] = LBRACE /\ s[b] = RBRACE
       /\ v.ok /\ IsObjectWithKey(v.v, key)
       /\ \E d \in 2..Len(sub) :
              /\ StartsAt(sub, d, literal_pattern(key))
              /\ \A j \in 2..(d - 1) : sub[j] \notin {LBRACE, RBRACE}

\* C15: if the script contains, at any position, a well-formed JSON object
\* in the literal-quote convention that has the key as a top-level member
\* and no other brace between its opening brace and the key, then that
\* object is in the returned list, whatever text precedes or follows it.
C15_LiteralPayloadReturned ==
    pc = "done" =>
        \A a \in 1..Len(input) : \A b \in a..Len(input) :
            IsLiteralPayloadAt(input, pattern, a, b) =>
                /\ ~result.panic
                /\ \E k \in 1..Len(result.results) :
                       result.results[k] = json_from_str(SubSeq(input, a, b)).v

\* The values kept for all key occurrences of both conventions, listed by
\* the position of the key occurrence in the script
RECURSIVE KeptInOrderOfAppearance(_, _, _)
KeptInOrderOfAppearance(s, key, K) ==
    IF K = {} THEN <<>>
    ELSE LET p == Leftmost(K) IN
         KeptAt(s, key, p \in KeyOccurrences(s, key, TRUE), p)
             \o KeptInOrderOfAppearance(s, key, K \ {p})

\* C16 as claimed: the matches are returned in order of appearance in the
\* script, for any mix of escaped-quote and literal-quote payloads: a kept
\* payload whose key occurrence lies before another's precedes it.
C16_OrderOfAppearance ==
    (pc = "done" /\ ~result.panic) =>
        result.results =
            KeptInOrderOfAppearance(input, pattern,
                KeyOccurrences(input, pattern, TRUE)
                    \cup KeyOccurrences(input, pattern, FALSE))

\* C16 as amended: the matches of the escaped-quote convention come first,
\* in order of appearance, and those of the literal-quote convention
\* follow them, in order of appearance.
C16_OrderWithinConvention ==
    (pc = "done" /\ ~result.panic) =>
        result.results =
            KeptByPosition(input, pattern, TRUE,
                           KeyOccurrences(input, pattern, TRUE))
            \o KeptByPosition(input, pattern, FALSE,
                              KeyOccurrences(input, pattern, FALSE))

\* Three payloads are kept, a literal-quote one before an escaped-quote one
C16_Witness ==
    /\ pc = "done"
    /\ ~result.panic
    /\ Len(result.results) = 3
    /\ \E p \in KeyOccurrences(input, pattern, FALSE) :
       \E q \in KeyOccurrences(input, pattern, TRUE) :
           /\ p < q
           /\ KeptAt(input, pattern, FALSE, p) # <<>>
           /\ KeptAt(input, pattern, TRUE, q) # <<>>
    /\ result.results[1] # result.results[3]

\* The candidate of the key occurrence at p: the balanced region that
\* starts at the enclosing opening brace, none without such a brace or
\* such a region
CandidateAt(s, is_escaped, p) ==
    LET brace == find_object_start_plain(SubSeq(s, 1, p - 1)) IN
    IF ~brace.some THEN NoText
    ELSE extract_balanced_json_with_escaped_strings(
             SubSeq(s, brace.val + 1, Len(s)), is_escaped)

\* The candidate's text after escape decoding, and after repair
CandidateDecoded(s, is_escaped, p) ==
    decode_js_string(
        IF is_escaped
        THEN replace(CandidateAt(s, is_escaped, p).val,
                     <<BACKSLASH, DQUOTE>>, <<DQUOTE>>)
        ELSE CandidateAt(s, is_escaped, p).val)

CandidateParsed(s, is_escaped, p) ==
    LET direct == json_from_str(CandidateDecoded(s, is_escaped, p).val) IN
    IF direct.ok THEN direct
    ELSE json_from_str(escape_json_control_chars(
                           CandidateDecoded(s, is_escaped, p).val))

\* The occurrence at p fails: its candidate has no enclosing opening brace,
\* is unbalanced, fails escape decoding, or does not parse
FailsAt(s, is_escaped, p) ==
    \/ ~CandidateAt(s, is_escaped, p).some
    \/ ~CandidateDecoded(s, is_escaped, p).ok
    \/ ~CandidateParsed(s, is_escaped, p).ok

\* What the occurrence at p contributes by the claim: nothing when it
\* fails, else its candidate's value when that has the key
ContributionAt(s, key, is_escaped, p) ==
    IF FailsAt(s, is_escaped, p) THEN <<>>
    ELSE IF IsObjectWithKey(CandidateParsed(s, is_escaped, p).v, key)
    THEN <<CandidateParsed(s, is_escaped, p).v>>
    ELSE <<>>

RECURSIVE ContributionsByPosition(_, _, _, _)
ContributionsByPosition(s, key, is_escaped, K) ==
    IF K = {} THEN <<>>
    ELSE LET p == Leftmost(K) IN
         ContributionAt(s, key, is_escaped, p)
             \o ContributionsByPosition(s, key, is_escaped, K \ {p})

\* C17: degrade, don't fail. A key occurrence whose candidate has no
\* enclosing opening brace, is unbalanced, fails escape decoding, or does
\* not parse is omitted and scanning continues: in a script with such an
\* occurrence the call still returns a list, and the list holds what each
\* other occurrence contributes by itself.
C17_FailingOccurrenceOmitted ==
    ( /\ pc = "done"
      /\ \E e \in BOOLEAN : \E p \in KeyOccurrences(input, pattern, e) :
             FailsAt(input, e, p) )
    => /\ ~result.panic
       /\ result.results =
              ContributionsByPosition(input, pattern, TRUE,
                                      KeyOccurrences(input, pattern, TRUE))
              \o ContributionsByPosition(input, pattern, FALSE,
                                         KeyOccurrences(input, pattern, FALSE))

\* How many entries of the list equal v
CountIn(list, v) == Cardinality({ k \in 1..Len(list) : list[k] = v })

\* The kept occurrences: convention and position
KeptOccurrences(s, key) ==
    { o \in BOOLEAN \X (1..Len(s)) :
        /\ o[2] \in KeyOccurrences(s, key, o[1])
        /\ KeptAt(s, key, o[1], o[2]) # <<>> }

\* C18: no deduplication. Each key occurrence that yields a kept value
\* adds exactly one entry: the list is as long as there are kept
\* occurrences, a value is listed as often as there are kept occurrences
\* yielding it (an object reached from two occurrences twice), and no
\* occurrence of the escaped pattern shares a character with one of the
\* literal pattern.
C18_NoDeduplication ==
    (pc = "done" /\ ~result.panic) =>
        LET kept == KeptOccurrences(input, pattern) IN
        /\ Len(result.results) = Cardinality(kept)
        /\ \A o \in kept :
               LET v == KeptAt(input, pattern, o[1], o[2])[1] IN
               CountIn(result.results, v) =
                   Cardinality({ q \in kept :
                       KeptAt(input, pattern, q[1], q[2]) = <<v>> })
        /\ \A p \in KeyOccurrences(input, pattern, TRUE) :
           \A q \in KeyOccurrences(input, pattern, FALSE) :
               /\ q \notin p..(p + Len(escaped_pattern(pattern)) - 1)
               /\ p \notin q..(q + Len(literal_pattern(pattern)) - 1)

\* One object is reached from two key occurrences and is listed twice
C18_Witness ==
    /\ pc = "done"
    /\ ~result.panic
    /\ \E p, q \in KeyOccurrences(input, pattern, FALSE) :
           /\ p < q
           /\ find_object_start_plain(SubSeq(input, 1, p - 1))
                  = find_object_start_plain(SubSeq(input, 1, q - 1))
           /\ KeptAt(input, pattern, FALSE, p) # <<>>
           /\ KeptAt(input, pattern, FALSE, q) # <<>>
           /\ CountIn(result.results, KeptAt(input, pattern, FALSE, p)[1]) = 2

-----------------------------------------------------------------------------
(* The repair, called on texts of quotes, backslashes, control characters  *)
(* and a letter.                                                           *)

MaxRepairFrags == 5

\* U+0007 and U+0085 are control characters the repair has no escape for
RepairFrags ==
    { <<DQUOTE>>, <<BACKSLASH>>, <<NEWLINE>>, <<CR>>, <<TAB>>, <<7>>,
      <<133>>, <<97>> }

InitRepair ==
    /\ input \in Texts(RepairFrags, MaxRepairFrags)
    /\ pattern = <<>>
    /\ pc = "ready"
    /\ result = <<>>

CallRepair ==
    /\ pc = "ready"
    /\ result' = escape_json_control_chars(input)
    /\ pc' = "done"
    /\ UNCHANGED <<input, pattern>>

NextRepair == CallRepair

SpecRepair == InitRepair /\ [][NextRepair]_vars

\* C19: escape_json_control_chars is idempotent: repairing its own output
\* changes nothing.
C19_Idempotent ==
    pc = "done" => escape_json_control_chars(result) = result

\* A newline was escaped and another control character dropped
C19_Witness ==
    /\ pc = "done"
    /\ \E k \in 1..(Len(result) - 1) :
           result[k] = BACKSLASH /\ result[k + 1] = LOWER_N
    /\ \E k \in 1..Len(input) : input[k] = NEWLINE
    /\ \E k \in 1..Len(input) : input[k] = 7
    /\ \A k \in 1..Len(result) : result[k] \notin {7, NEWLINE}

\* What the repair writes for the character at index i: the scan goes
\* left to right, so it is what the repair of s[1..i] adds to that of
\* s[1..i-1]
WrittenFor(s, i) ==
    LET upto == escape_json_control_chars(SubSeq(s, 1, i))
        before == escape_json_control_chars(SubSeq(s, 1, i - 1))
    IN SubSeq(upto, Len(before) + 1, Len(upto))

\* The control characters: the category Cc
IsControlCharacter(c) == (c >= 0 /\ c <= 31) \/ (c >= 127 /\ c <= 159)

\* The escape of a raw newline, carriage return or tab; nothing for any
\* other control character
TwoCharacterEscape(c) ==
    IF c = 10 THEN <<BACKSLASH, LOWER_N>>
    ELSE IF c = 13 THEN <<BACKSLASH, LOWER_R>>
    ELSE IF c = 9 THEN <<BACKSLASH, LOWER_T>>
    ELSE <<>>

\* The character right before index i is a backslash
AfterBackslash(s, i) == i > 1 /\ s[i - 1] = BACKSLASH

\* Index i is inside a string span, spans toggling on every double quote
\* that is not right after a backslash
InSpanByPreviousCharacter(s, i) ==
    Cardinality({ j \in 1..(i - 1) :
                    s[j] = DQUOTE /\ ~AfterBackslash(s, j) }) % 2 = 1

\* C20 as claimed: with string spans toggling on every double quote that
\* is not the character right after a backslash, a raw newline, carriage
\* return or tab inside a span and not right after a backslash is replaced
\* by its two-character escape, any other such control character is
\* dropped, and every control character outside a span is copied.
C20_SpansByPreviousCharacter ==
    pc = "done" =>
        \A i \in 1..Len(input) :
            IsControlCharacter(input[i]) =>
                IF InSpanByPreviousCharacter(input, i)
                THEN ~AfterBackslash(input, i) =>
                         WrittenFor(input, i) = TwoCharacterEscape(input[i])
                ELSE WrittenFor(input, i) = <<input[i]>>

\* The character at index i is the second of an escape pair: a backslash
\* that is not itself the second of a pair, and the character after it
RECURSIVE IsEscapedByPair(_, _)
IsEscapedByPair(s, i) ==
    i > 1 /\ s[i - 1] = BACKSLASH /\ ~IsEscapedByPair(s, i - 1)

InSpanByEscapePairs(s, i) ==
    Cardinality({ j \in 1..(i - 1) :
                    s[j] = DQUOTE /\ ~IsEscapedByPair(s, j) }) % 2 = 1

\* C20 as amended: the same, with "right after a backslash" read as "the
\* second character of an escape pair", pairs being taken left to right.
C20_SpansByEscapePairs ==
    pc = "done" =>
        \A i \in 1..Len(input) :
            IsControlCharacter(input[i]) =>
                IF InSpanByEscapePairs(input, i)
                THEN ~IsEscapedByPair(input, i) =>
                         WrittenFor(input, i) = TwoCharacterEscape(input[i])
                ELSE WrittenFor(input, i) = <<input[i]>>

\* After an escaped backslash a quote opens a span, in which a tab is
\* escaped and another control character dropped
C20_Witness ==
    /\ pc = "done"
    /\ input = <<BACKSLASH, BACKSLASH, DQUOTE, TAB, 133>>
    /\ result = <<BACKSLASH, BACKSLASH, DQUOTE, BACKSLASH, LOWER_T>>

-----------------------------------------------------------------------------
(* html_query (src/src/duckdb.rs) and extract_all_with_mode               *)
(* (src/src/lib.rs). The HTML parser and the selector engine are the       *)
(* kuchikiki library: a document is given as the elements it parses to, in *)
(* document order, inside the html, head and body elements the parser      *)
(* adds; a node is its serialization, its text and its attributes.         *)

\* '@'
AT_SIGN == 64

\* "href", "text" and "@text"
HREF == <<104, 114, 101, 102>>
TEXT == <<116, 101, 120, 116>>
AT_TEXT == <<AT_SIGN>> \o TEXT

\* ":root", the selector of a row without one
ROOT_SELECTOR == <<58, 114, 111, 111, 116>>

\* The empty attribute list of an element
NoAttributes == [a \in {} |-> <<>>]

\* NodeRef::to_string of an element: <tag href="v">text</tag>
ElementHtml(e) ==
    <<60>> \o e.tag
    \o (IF e.has_href THEN <<SPACE>> \o HREF \o <<EQUALS, DQUOTE>>
                            \o e.href \o <<DQUOTE>>
        ELSE <<>>)
    \o <<62>> \o e.text \o <<60, SLASH>> \o e.tag \o <<62>>

ElementNode(e) ==
    [html |-> ElementHtml(e), text |-> e.text, tag |-> e.tag,
     attrs |-> IF e.has_href THEN (HREF :> e.href) ELSE NoAttributes]

RECURSIVE BodyHtml(_)
BodyHtml(document) ==
    IF document = <<>> THEN <<>>
    ELSE ElementHtml(Head(document)) \o BodyHtml(Tail(document))

RECURSIVE BodyText(_)
BodyText(document) ==
    IF document = <<>> THEN <<>>
    ELSE Head(document).text \o BodyText(Tail(document))

\* The html element: <html><head></head><body>...</body></html>
RootNode(document) ==
    [html |-> <<60, 104, 116, 109, 108, 62, 60, 104, 101, 97, 100, 62,
                60, 47, 104, 101, 97, 100, 62, 60, 98, 111, 100, 121, 62>>
              \o BodyHtml(document)
              \o <<60, 47, 98, 111, 100, 121, 62,
                   60, 47, 104, 116, 109, 108, 62>>,
     text |-> BodyText(document),
     tag |-> <<104, 116, 109, 108>>,
     attrs |-> NoAttributes]

\* The elements of the document with the given tag, in document order
RECURSIVE ElementsByTag(_, _)
ElementsByTag(document, tag) ==
    IF document = <<>> THEN <<>>
    ELSE (IF Head(document).tag = tag THEN <<ElementNode(Head(document))>>
          ELSE <<>>)
         \o ElementsByTag(Tail(document), tag)

\* A type selector, or :root: a letter, or the text ":root"
IsSelector(selector) ==
    \/ selector = ROOT_SELECTOR
    \/ Len(selector) = 1 /\ selector[1] \in 97..122

\* document.select(selector): the matching elements in document order,
\* or the error of a selector that does not parse
select(document, selector) ==
    IF ~IsSelector(selector) THEN [ok |-> FALSE, nodes |-> <<>>]
    ELSE IF selector = ROOT_SELECTOR
    THEN [ok |-> TRUE, nodes |-> <<RootNode(document)>>]
    ELSE [ok |-> TRUE, nodes |-> ElementsByTag(document, selector)]

\* serialize_text(node, false): the text nodes under the node, joined
serialize_text(node) == node.text

\* attrs.get(attr).unwrap_or("")
attr_or_empty(node, attr) ==
    IF attr \in DOMAIN node.attrs THEN node.attrs[attr] ELSE <<>>

\* enum ExtractMode
ModeHtml == [kind |-> "Html", attr |-> <<>>, list |-> <<>>]
ModeText == [kind |-> "Text", attr |-> <<>>, list |-> <<>>]
ModeAttribute(attr) == [kind |-> "Attribute", attr |-> attr, list |-> <<>>]
ModeMultiAttribute(list) ==
    [kind |-> "MultiAttribute", attr |-> <<>>, list |-> list]

\* ExtractMode::from_attr(Some(s))
from_attr(s) ==
    IF s = <<>> THEN ModeHtml
    ELSE IF s = AT_TEXT \/ s = TEXT THEN ModeText
    ELSE IF s[1] = AT_SIGN THEN ModeAttribute(Tail(s))
    ELSE ModeAttribute(s)

\* The name a list entry is normalized to
NormalizedAttr(s) ==
    IF s = AT_TEXT \/ s = TEXT THEN AT_TEXT
    ELSE IF s # <<>> /\ s[1] = AT_SIGN THEN Tail(s)
    ELSE s

\* ExtractMode::from_attr_list
from_attr_list(attrs) ==
    IF Len(attrs) = 0 THEN ModeHtml
    ELSE IF Len(attrs) = 1 THEN from_attr(attrs[1])
    ELSE ModeMultiAttribute([k \in 1..Len(attrs) |-> NormalizedAttr(attrs[k])])

\* The order of the keys of serde_json::Map: the order of the texts
RECURSIVE LexLess(_, _)
LexLess(a, b) ==
    IF b = <<>> THEN FALSE
    ELSE IF a = <<>> THEN TRUE
    ELSE IF Head(a) # Head(b) THEN Head(a) < Head(b)
    ELSE LexLess(Tail(a), Tail(b))

\* A JSON string literal: quotes and backslashes escaped
RECURSIVE JsonEscaped(_)
JsonEscaped(v) ==
    IF v = <<>> THEN <<>>
    ELSE (IF Head(v) \in {DQUOTE, BACKSLASH} THEN <<BACKSLASH, Head(v)>>
          ELSE <<Head(v)>>)
         \o JsonEscaped(Tail(v))

JsonString(v) == <<DQUOTE>> \o JsonEscaped(v) \o <<DQUOTE>>

\* The members of the map, least key first, separated by commas
RECURSIVE JsonMembers(_, _)
JsonMembers(obj, keys) ==
    IF keys = {} THEN <<>>
    ELSE LET k == CHOOSE k \in keys : \A j \in keys \ {k} : LexLess(k, j)
         IN JsonString(k) \o <<COLON>> \o JsonString(obj[k])
            \o (IF keys = {k} THEN <<>> ELSE <<COMMA>>)
            \o JsonMembers(obj, keys \ {k})

\* serde_json::to_string(&obj)
to_string(obj) ==
    <<LBRACE>> \o JsonMembers(obj, DOMAIN obj) \o <<RBRACE>>

\* for attr in attr_list { obj.insert(key, value) }
RECURSIVE insert_attrs(_, _, _)
insert_attrs(node, attr_list, obj) ==
    IF attr_list = <<>> THEN obj
    ELSE insert_attrs(node, Tail(attr_list),
             IF Head(attr_list) = AT_TEXT
             THEN (TEXT :> trim(serialize_text(node))) @@ obj
             ELSE (Head(attr_list) :> attr_or_empty(node, Head(attr_list)))
                  @@ obj)

\* let content = match mode { .. }
content_of(node, mode) ==
    CASE mode.kind = "Text" -> trim(serialize_text(node))
      [] mode.kind = "Html" -> node.html
      [] mode.kind = "Attribute" -> attr_or_empty(node, mode.attr)
      [] mode.kind = "MultiAttribute" ->
             to_string(insert_attrs(node, mode.list, NoAttributes))

\* An extraction that keeps the empty contents too
keep_content_Always(content) == TRUE

\* if !content.is_empty() { results.push(content) }
keep_content(content) == content # <<>>

\* for node in document.select(selector)
RECURSIVE contents_of(_, _)
contents_of(nodes, mode) ==
    IF nodes = <<>> THEN <<>>
    ELSE (IF keep_content(content_of(Head(nodes), mode))
          THEN <<content_of(Head(nodes), mode)>> ELSE <<>>)
         \o contents_of(Tail(nodes), mode)

AllContents(selected, mode) ==
    IF selected.ok THEN [ok |-> TRUE, val |-> contents_of(selected.nodes, mode)]
    ELSE [ok |-> FALSE, val |-> <<>>]

extract_all_with_mode(document, selector, mode) ==
    AllContents(select(document, selector), mode)

\* A cell of the output vector
NullCell == [null |-> TRUE, val |-> <<>>]
Cell(v) == [null |-> FALSE, val |-> v]

\* let selector = selectors.get(i)...unwrap_or(":root")
selector_of(row, columns) ==
    IF columns.num_columns > 1 /\ ~row.selector_null THEN row.selector
    ELSE ROOT_SELECTOR

\* extract_modes[i]
mode_of(row, columns) ==
    IF columns.num_columns > 2
    THEN IF row.extract_null THEN ModeHtml
         ELSE IF columns.is_list THEN from_attr_list(row.extract_list)
         ELSE from_attr(row.extract)
    ELSE ModeHtml

\* match extract_all_with_mode(..): the first content, or NULL
first_or_null(elements) ==
    IF elements.ok /\ elements.val # <<>> THEN Cell(elements.val[1])
    ELSE NullCell

\* The body of for i in 0..size
query_row(row, columns) ==
    IF row.html_null THEN NullCell
    ELSE first_or_null(extract_all_with_mode(row.document,
                           selector_of(row, columns), mode_of(row, columns)))

\* html_contents: the string of every row is read, the NULL rows
\* included, before any row is tested for NULL. What a NULL row holds is
\* not defined: the read yields some text that is never used, or fails.
html_contents(chunk) ==
    \A i \in 1..Len(chunk) : chunk[i].html_null => chunk[i].readable

QueryCrash == [crash |-> TRUE, output |-> <<>>]

\* HtmlQueryFunction::invoke
HtmlQueryFunction_invoke(chunk, columns) ==
    IF ~html_contents(chunk) THEN QueryCrash
    ELSE [crash |-> FALSE,
          output |-> [i \in 1..Len(chunk) |-> query_row(chunk[i], columns)]]

-----------------------------------------------------------------------------
(* html_query, called on chunks of one or two rows, with one, two or       *)
(* three columns.                                                          *)

MaxElements == 2

\* <a></a>, <a href="/x">t</a> and <p> </p>
QueryElements ==
    { [tag |-> <<97>>, has_href |-> FALSE, href |-> <<>>, text |-> <<>>],
      [tag |-> <<97>>, has_href |-> TRUE, href |-> <<SLASH, LOWER_X>>,
       text |-> <<LOWER_T>>],
      [tag |-> <<112>>, has_href |-> FALSE, href |-> <<>>,
       text |-> <<SPACE>>] }

QueryDocuments == UNION { [1..k -> QueryElements] : k \in 0..MaxElements }

\* The selectors a, p and one that does not parse
QuerySelectors == { <<97>>, <<112>>, <<62>> }

QueryExtracts ==
    { <<>>, TEXT, AT_TEXT, HREF, <<AT_SIGN>> \o HREF }

QueryExtractLists ==
    { <<>>, << <<AT_SIGN>> \o HREF >>, << <<AT_SIGN>> \o HREF, AT_TEXT >> }

\* A row with a NULL in the html column
NullRows ==
    { [html_null |-> TRUE, readable |-> r, document |-> <<>>,
       selector_null |-> TRUE, selector |-> <<>>,
       extract_null |-> TRUE, extract |-> <<>>, extract_list |-> <<>>] :
      r \in BOOLEAN }

\* The rows of a chunk with the given columns; a column that is absent,
\* or holds NULL, holds nothing
QueryRows(columns) ==
    NullRows \cup
    { [html_null |-> FALSE, readable |-> TRUE, document |-> d,
       selector_null |-> s = <<>>, selector |-> s,
       extract_null |-> e.null, extract |-> e.str, extract_list |-> e.list] :
      d \in QueryDocuments,
      s \in IF columns.num_columns > 1 THEN QuerySelectors \cup {<<>>}
            ELSE {<<>>},
      e \in IF columns.num_columns < 3
            THEN {[null |-> TRUE, str |-> <<>>, list |-> <<>>]}
            ELSE IF columns.is_list
            THEN {[null |-> TRUE, str |-> <<>>, list |-> <<>>]} \cup
                 {[null |-> FALSE, str |-> <<>>, list |-> l] :
                    l \in QueryExtractLists}
            ELSE {[null |-> TRUE, str |-> <<>>, list |-> <<>>]} \cup
                 {[null |-> FALSE, str |-> x, list |-> <<>>] :
                    x \in QueryExtracts} }

QueryColumns ==
    { [num_columns |-> n, is_list |-> l] : n \in 1..3, l \in BOOLEAN }

NoQueryResult == [crash |-> FALSE, output |-> <<>>]

InitQuery ==
    /\ pattern \in { c \in QueryColumns : c.is_list => c.num_columns = 3 }
    /\ \E size \in {1, 2} : input \in [1..size -> QueryRows(pattern)]
    /\ pc = "ready"
    /\ result = NoQueryResult

CallHtmlQuery ==
    /\ pc = "ready"
    /\ result' = HtmlQueryFunction_invoke(input, pattern)
    /\ pc' = "done"
    /\ UNCHANGED <<input, pattern>>

NextQuery == CallHtmlQuery

SpecQuery == InitQuery /\ [][NextQuery]_vars

-----------------------------------------------------------------------------
(* Claims about html_query, checked under SpecQuery.                       *)

\* What the claim gives for a row: NULL for a NULL html, for a selector
\* that is invalid or matches no element; else the extraction of the first
\* matching element
FirstElementExtraction(row, columns) ==
    LET matched == select(row.document, selector_of(row, columns)) IN
    IF row.html_null \/ ~matched.ok \/ matched.nodes = <<>> THEN NullCell
    ELSE Cell(content_of(matched.nodes[1], mode_of(row, columns)))

\* C21: html_query. For a non-NULL html row the result is the extraction
\* (HTML, text or attribute value) of the first element, in document
\* order, that matches the selector, and NULL when no element matches or
\* the selector is invalid; a NULL html row yields NULL.
C21_FirstMatchingElement ==
    pc = "done" =>
        /\ ~result.crash
        /\ \A i \in 1..Len(input) :
               mode_of(input[i], pattern).kind # "MultiAttribute" =>
                   result.output[i] = FirstElementExtraction(input[i], pattern)

-----------------------------------------------------------------------------
(* extract_until_statement_end called on its own.                          *)

\* Texts of terminators, quotes, backslashes, braces, an opening bracket
\* and a continuation character
MaxScanFrags == 5

ScanFrags ==
    { <<SEMICOLON>>, <<NEWLINE>>, <<DQUOTE>>, <<SQUOTE>>, <<BACKSLASH>>,
      <<LBRACE>>, <<RBRACE>>, <<LBRACKET>>, <<PLUS>> }

InitScan ==
    /\ input \in Texts(ScanFrags, MaxScanFrags)
    /\ pattern = <<>>
    /\ pc = "ready"
    /\ result = StmtInit

\* The call; the result holds the scanner's variables when the loop is left
CallScan ==
    /\ pc = "ready"
    /\ result' = StmtScan(StmtInit, input, 1)
    /\ pc' = "done"
    /\ UNCHANGED <<input, pattern>>

NextScan == CallScan

SpecScan == InitScan /\ [][NextScan]_vars

-----------------------------------------------------------------------------
(* Claims about extract_until_statement_end, checked under SpecScan.       *)

\* The scanner's variables when it comes to read s[i]; stop is set when
\* the loop was left before
RECURSIVE StateBefore(_, _)
StateBefore(s, i) ==
    IF i = 1 THEN StmtInit
    ELSE LET prev == StateBefore(s, i - 1) IN
         IF prev.stop THEN prev ELSE StmtStep(prev, s, i - 1)

\* s[i] is read at brace depth 0 and bracket depth 0, outside a string
ReadAtTop(s, i) ==
    LET st == StateBefore(s, i) IN
    /\ ~st.stop
    /\ st.brace_depth = 0 /\ st.bracket_depth = 0
    /\ ~st.in_string

\* The scan stopped at s[i]: the result is the text before it
StoppedAt(s, i) ==
    /\ result.stop
    /\ result.result = SubSeq(s, 1, i - 1)

\* C22: extract_until_statement_end. Whenever a semicolon is read at brace
\* depth 0 and bracket depth 0, outside a string, the scan stops there and
\* the result is exactly the input before that semicolon, whatever
\* character precedes the semicolon.
C22_SemicolonEndsStatement ==
    pc = "done" =>
        \A i \in 1..Len(input) :
            input[i] = SEMICOLON /\ ReadAtTop(input, i)
                => StoppedAt(input, i)

\* The first non-whitespace character after s[i] is one of . , + - * /
RECURSIVE ContinuesAfter(_, _)
ContinuesAfter(s, i) ==
    IF i + 1 > Len(s) THEN FALSE
    ELSE IF is_whitespace(s[i + 1]) THEN ContinuesAfter(s, i + 1)
    ELSE s[i + 1] \in {DOT, COMMA, PLUS, MINUS, STAR, SLASH}

\* s[i] was copied to the result and the scan went on
KeptAndContinued(s, i) ==
    /\ Len(result.result) >= i
    /\ SubSeq(result.result, 1, i) = SubSeq(s, 1, i)

\* C23: extract_until_statement_end. A newline read at brace depth 0 and
\* bracket depth 0, outside a string, ends the statement (newline
\* excluded) unless the first non-whitespace character after it is one of
\* . , + - * /, and then the newline is kept and the scan continues; a
\* newline followed only by whitespace up to the end of input ends the
\* statement too.
C23_NewlineEndsStatement ==
    pc = "done" =>
        \A i \in 1..Len(input) :
            input[i] = NEWLINE /\ ReadAtTop(input, i)
                => IF ContinuesAfter(input, i)
                   THEN KeptAndContinued(input, i)
                   ELSE StoppedAt(input, i)

\* s[i] is the second character of a backslash escape: it comes right
\* after a backslash that is not itself consumed by an escape
RECURSIVE ConsumedByEscape(_, _)
ConsumedByEscape(s, i) ==
    /\ i > 1
    /\ s[i - 1] = BACKSLASH
    /\ ~ConsumedByEscape(s, i - 1)

\* s[i] is read inside a string
ReadInString(s, i) ==
    /\ ~StateBefore(s, i).stop
    /\ StateBefore(s, i).in_string

\* The quote that opened the string s[i] is read in
RECURSIVE OpeningQuote(_, _)
OpeningQuote(s, i) ==
    IF ReadInString(s, i - 1) THEN OpeningQuote(s, i - 1) ELSE s[i - 1]

\* C24: extract_until_statement_end, string awareness. Once a quote
\* (" or ') has opened a string, only the same quote character, not
\* consumed by a preceding backslash escape, closes it; while inside a
\* string no brace or bracket changes a depth counter and no semicolon or
\* newline ends the statement.
C24_StringAwareness ==
    pc = "done" =>
        \A i \in 1..Len(input) :
            ReadInString(input, i) =>
                /\ OpeningQuote(input, i) \in {DQUOTE, SQUOTE}
                /\ StateBefore(input, i + 1).in_string
                       = ~(/\ input[i] = OpeningQuote(input, i)
                           /\ ~ConsumedByEscape(input, i))
                /\ StateBefore(input, i + 1).brace_depth
                       = StateBefore(input, i).brace_depth
                /\ StateBefore(input, i + 1).bracket_depth
                       = StateBefore(input, i).bracket_depth
                /\ ~StateBefore(input, i + 1).stop

\* A string that holds its own quote character after a backslash and a
\* terminator, a brace or a bracket, and is closed
C24_Witness ==
    /\ pc = "done"
    /\ \E i, j, k \in 1..Len(input) :
          /\ j < k
          /\ ReadInString(input, i) /\ ReadInString(input, j)
          /\ ReadInString(input, k)
          /\ input[i] = OpeningQuote(input, i)
          /\ ConsumedByEscape(input, i)
          /\ input[j] \in {SEMICOLON, NEWLINE, LBRACE, LBRACKET}
          /\ input[k] = OpeningQuote(input, k)
          /\ ~StateBefore(input, k + 1).in_string

\* s[i] is read while the brace depth or the bracket depth is above 0
ReadInside(s, i) ==
    /\ ~StateBefore(s, i).stop
    /\ \/ StateBefore(s, i).brace_depth > 0
       \/ StateBefore(s, i).bracket_depth > 0

\* s[k] closes the literal that s[1] opens: after it both depths are 0
\* again, for the first time
ClosesLiteral(s, k) ==
    /\ s[1] \in {LBRACE, LBRACKET}
    /\ \A j \in 1..(k - 1) : ReadInside(s, j + 1)
    /\ ~StateBefore(s, k + 1).stop
    /\ StateBefore(s, k + 1).brace_depth = 0
    /\ StateBefore(s, k + 1).bracket_depth = 0

\* s[i] is a statement terminator: a semicolon, or a newline that no
\* continuation character follows
IsTerminator(s, i) ==
    \/ s[i] = SEMICOLON
    \/ s[i] = NEWLINE /\ ~ContinuesAfter(s, i)

-----------------------------------------------------------------------------
(* extract_json_parse called on its own.                                   *)

\* Texts that begin with "JSON.parse(", with " JSON.parse(" or with
\* "JSON.parse", followed by a few fragments of an argument
MaxArgFrags == 5

ArgHeads ==
    { JSON_PARSE,
      <<SPACE>> \o JSON_PARSE,
      SubSeq(JSON_PARSE, 1, Len(JSON_PARSE) - 1) }

ArgFrags ==
    { <<SQUOTE>>, <<DQUOTE>>, <<BACKSLASH>>, <<LOWER_X>>, <<49>> }

\* The captured argument of a call that got as far as the scan
captured_argument(inp) ==
    IF /\ StartsAt(inp, 1, JSON_PARSE)
       /\ Len(inp) > Len(JSON_PARSE)
       /\ is_quote(inp[Len(JSON_PARSE) + 1])
    THEN [scanned |-> TRUE,
          encoded_content |->
              encoded_content_of(SubSeq(inp, Len(JSON_PARSE) + 1,
                                        Len(inp)))]
    ELSE [scanned |-> FALSE, encoded_content |-> <<>>]

NoArgResult ==
    [value |-> NoVarResult, scanned |-> FALSE, encoded_content |-> <<>>]

InitArg ==
    /\ input \in HeadedTexts(ArgHeads, ArgFrags, MaxArgFrags)
    /\ pattern = <<>>
    /\ pc = "ready"
    /\ result = NoArgResult

\* The call; the result holds the returned value and the argument the
\* scan captured
CallJsonParse ==
    /\ pc = "ready"
    /\ result' = [value |-> extract_json_parse(input),
                  scanned |-> captured_argument(input).scanned,
                  encoded_content |->
                      captured_argument(input).encoded_content]
    /\ pc' = "done"
    /\ UNCHANGED <<input, pattern>>

NextArg == CallJsonParse

SpecArg == InitArg /\ [][NextArg]_vars

-----------------------------------------------------------------------------
(* Claims about extract_json_parse, checked under SpecArg.                 *)

\* The text begins with "JSON.parse("
BeginsWithJsonParse(s) ==
    /\ Len(s) >= Len(JSON_PARSE)
    /\ SubSeq(s, 1, Len(JSON_PARSE)) = JSON_PARSE

\* The text after "JSON.parse("
AfterParse(s) == SubSeq(s, Len(JSON_PARSE) + 1, Len(s))

\* C26: extract_json_parse. An input that does not start with
\* "JSON.parse(" is rejected; when the character right after
\* "JSON.parse(" is neither ' nor ", or no character follows, the call
\* fails and returns no value.
C26_RejectsUnsupportedLiteral ==
    pc = "done" =>
        /\ ~BeginsWithJsonParse(input) => ~result.value.ok
        /\ (/\ BeginsWithJsonParse(input)
            /\ \/ AfterParse(input) = <<>>
               \/ AfterParse(input)[1] \notin {SQUOTE, DQUOTE})
               => /\ ~result.value.ok /\ ~result.scanned
                  /\ result.value.err.msg
                         \in {"Expected quote after JSON.parse(",
                              "Expected ' or \" after JSON.parse(, got"}

\* A call whose input starts with "JSON.parse(" followed by a character
\* that is no quote
C26_Witness ==
    /\ pc = "done"
    /\ BeginsWithJsonParse(input)
    /\ Len(AfterParse(input)) > 1
    /\ AfterParse(input)[1] \notin {SQUOTE, DQUOTE}
    /\ ~result.value.ok

\* The positions of `content` that hold the quote character q and are
\* not right after an unconsumed backslash
ClosingQuotes(content, q) ==
    { i \in 1..Len(content) :
        content[i] = q /\ ~ConsumedByEscape(content, i) }

\* The least member of a non-empty set of positions
First(S) == CHOOSE i \in S : \A j \in S : i <= j

\* The input opens an argument: "JSON.parse(" and a quote
OpensArgument(s) ==
    /\ BeginsWithJsonParse(s)
    /\ AfterParse(s) # <<>>
    /\ AfterParse(s)[1] \in {SQUOTE, DQUOTE}

\* What the claim gives for the text after the opening quote q
ArgumentByClaim(content, q) ==
    IF ClosingQuotes(content, q) = {} THEN content
    ELSE SubSeq(content, 1, First(ClosingQuotes(content, q)) - 1)

\* C27: extract_json_parse, argument scan. The captured argument is the
\* text between the opening quote and the first later occurrence of the
\* same quote character that is not right after an unconsumed backslash
\* (the other quote kind never ends it); when there is no such closing
\* quote the captured argument is all the remaining text, and no error is
\* raised for the missing quote.
C27_CapturedArgument ==
    pc = "done" /\ OpensArgument(input) =>
        /\ result.scanned
        /\ result.encoded_content
               = ArgumentByClaim(Tail(AfterParse(input)),
                                 AfterParse(input)[1])
        /\ ClosingQuotes(Tail(AfterParse(input)),
                         AfterParse(input)[1]) = {}
               => \/ result.value.ok
                  \/ /\ ~decode_js_string(Tail(AfterParse(input))).ok
                     /\ result.value.err
                            = decode_js_string(Tail(AfterParse(input))).err

\* An argument that holds its own quote character after a backslash and
\* the other quote character, and is closed
C27_Witness ==
    /\ pc = "done" /\ OpensArgument(input)
    /\ ClosingQuotes(Tail(AfterParse(input)), AfterParse(input)[1]) # {}
    /\ \E i, j \in 1..Len(result.encoded_content) :
          /\ result.encoded_content[i] = AfterParse(input)[1]
          /\ result.encoded_content[j] \in {SQUOTE, DQUOTE}
          /\ result.encoded_content[j] # AfterParse(input)[1]

-----------------------------------------------------------------------------
(* extract_balanced_json_with_escaped_strings called on its own.           *)

\* Texts of brackets, a closing brace, quotes, backslashes and escaped
\* quotes, some behind an opening brace or bracket
MaxBalancedFrags == 5

BalancedHeads == { <<>>, <<LBRACE>>, <<LBRACKET>> }

BalancedFrags ==
    { <<LBRACKET>>, <<RBRACKET>>, <<RBRACE>>, <<DQUOTE>>, <<BACKSLASH>>,
      <<BACKSLASH, DQUOTE>> }

\* input is the text, pattern the flag escaped_strings
InitBalanced ==
    /\ input \in HeadedTexts(BalancedHeads, BalancedFrags, MaxBalancedFrags)
    /\ pattern \in BOOLEAN
    /\ pc = "ready"
    /\ result = NoText

CallBalanced ==
    /\ pc = "ready"
    /\ result' = extract_balanced_json_with_escaped_strings(input, pattern)
    /\ pc' = "done"
    /\ UNCHANGED <<input, pattern>>

NextBalanced == CallBalanced

SpecBalanced == InitBalanced /\ [][NextBalanced]_vars

-----------------------------------------------------------------------------
(* Claims about the balanced scanner, checked under SpecBalanced.          *)

\* The text is scanned: it begins with a brace or a bracket
IsScanned(text) == text # <<>> /\ text[1] \in {LBRACE, LBRACKET}

\* The closer of the text's first character
CloserOf(text) == IF text[1] = LBRACE THEN RBRACE ELSE RBRACKET

\* The loop takes another turn from the variables st
Running(text, st) == st.i <= Len(text) /\ st.depth > 0

\* The scanner's variables after n turns of the loop, or when the loop
\* was left before
RECURSIVE ScanState(_, _, _)
ScanState(text, escaped_strings, n) ==
    IF n = 0 THEN [i |-> 2, depth |-> 1, in_string |-> FALSE]
    ELSE LET prev == ScanState(text, escaped_strings, n - 1) IN
         IF Running(text, prev)
         THEN balanced_step(text, prev, escaped_strings, text[1],
                            CloserOf(text))
         ELSE prev

\* What the call returns when the loop is left with the variables st
ReturnedFrom(text, st) ==
    IF st.depth = 0 THEN SomeText(SubSeq(text, 1, st.i - 1)) ELSE NoText

\* The turn taken from st moved on by k characters and left the depth
\* alone; the string state is toggled or kept
Passed(st, nx, k, toggled) ==
    /\ nx.i = st.i + k
    /\ nx.depth = st.depth
    /\ nx.in_string = (IF toggled THEN ~st.in_string ELSE st.in_string)

\* The rules of the escaped convention for the turn that reads text[st.i]
EscapedQuotesTurn(text, st, nx) ==
    LET c == text[st.i]
        d == At(text, st.i + 1)
    IN /\ c = BACKSLASH /\ d = DQUOTE => Passed(st, nx, 2, TRUE)
       /\ c = BACKSLASH /\ d = BACKSLASH /\ st.in_string
              => Passed(st, nx, 2, FALSE)
       /\ c = DQUOTE => Passed(st, nx, 1, FALSE)
       /\ c = BACKSLASH /\ d # DQUOTE /\ ~(d = BACKSLASH /\ st.in_string)
              => Passed(st, nx, 1, FALSE)

\* C30: balanced scanner, EscapedQuotes mode. Every two-character
\* sequence backslash-quote the scan reaches toggles the in-string state
\* as a single token; inside a string the two-character sequence
\* backslash-backslash is skipped as a unit; a bare double quote and a
\* lone backslash change neither the string state nor the depth.
C30_EscapedQuotesMode ==
    pc = "done" /\ pattern /\ IsScanned(input) =>
        /\ \A n \in 0..Len(input) :
               Running(input, ScanState(input, TRUE, n))
                   => EscapedQuotesTurn(input, ScanState(input, TRUE, n),
                                        ScanState(input, TRUE, n + 1))
        /\ result = ReturnedFrom(input, ScanState(input, TRUE, Len(input)))

\* A scan in the escaped convention that enters a string at a
\* backslash-quote, reads a bare quote and a backslash-backslash inside
\* it, and returns a text
C30_Witness ==
    /\ pc = "done" /\ pattern /\ IsScanned(input)
    /\ result # NoText
    /\ \E m, n \in 0..Len(input) :
          /\ Running(input, ScanState(input, TRUE, m))
          /\ Running(input, ScanState(input, TRUE, n))
          /\ ScanState(input, TRUE, m).in_string
          /\ ScanState(input, TRUE, n).in_string
          /\ input[ScanState(input, TRUE, m).i] = DQUOTE
          /\ input[ScanState(input, TRUE, n).i] = BACKSLASH
          /\ At(input, ScanState(input, TRUE, n).i + 1) = BACKSLASH

\* The rules of the literal convention for the turn that reads text[st.i]
LiteralTurn(text, st, nx) ==
    LET c == text[st.i] IN
    /\ st.in_string /\ c = BACKSLASH /\ st.i + 1 <= Len(text)
           => Passed(st, nx, 2, FALSE)
    /\ c = DQUOTE => Passed(st, nx, 1, TRUE)

\* C29: balanced scanner, Literal mode. Inside a string every backslash
\* is skipped as one unit together with the character after it, and a
\* double quote toggles the in-string state exactly when it is not the
\* second character of such a skipped unit, so that a quote after a
\* skipped backslash-backslash pair closes the string.
C29_LiteralMode ==
    pc = "done" /\ ~pattern /\ IsScanned(input) =>
        \A n \in 0..Len(input) :
            Running(input, ScanState(input, FALSE, n))
                => LiteralTurn(input, ScanState(input, FALSE, n),
                               ScanState(input, FALSE, n + 1))

\* One turn of a scan by the rules of the two conventions as they are
\* stated: a string boundary, a skipped unit inside a string, or a
\* character that counts for the depth outside a string
ConventionTurn(text, st, escaped_strings, open, close) ==
    LET c == text[st.i]
        d == At(text, st.i + 1)
        boundary == IF escaped_strings THEN c = BACKSLASH /\ d = DQUOTE
                    ELSE c = DQUOTE
        unit == /\ st.in_string /\ c = BACKSLASH /\ d # EOF
                /\ escaped_strings => d = BACKSLASH
    IN IF boundary
       THEN [i |-> st.i + (IF escaped_strings THEN 2 ELSE 1),
             depth |-> st.depth, in_string |-> ~st.in_string]
       ELSE IF unit
       THEN [i |-> st.i + 2, depth |-> st.depth, in_string |-> TRUE]
       ELSE [i |-> st.i + 1,
             depth |-> IF st.in_string THEN st.depth
                       ELSE IF c = open THEN st.depth + 1
                       ELSE IF c = close THEN st.depth - 1
                       ELSE st.depth,
             in_string |-> st.in_string]

\* The shortest prefix in which the first character is closed under the
\* convention, if there is one
RECURSIVE ShortestBalanced(_, _, _)
ShortestBalanced(text, st, escaped_strings) ==
    IF st.depth = 0 THEN SomeText(SubSeq(text, 1, st.i - 1))
    ELSE IF st.i > Len(text) THEN NoText
    ELSE ShortestBalanced(text,
                          ConventionTurn(text, st, escaped_strings,
                                         text[1], CloserOf(text)),
                          escaped_strings)

\* C28: extract_balanced_json_with_escaped_strings. For a text whose
\* first character is { or [ the result is the shortest prefix in which
\* that brace or bracket is closed under the selected string convention
\* (in Literal mode, for an input that begins with a well-formed JSON
\* object or array, exactly that value's text), and None when the input
\* ends before balance is reached; for the empty text and for any other
\* first character the result is None.
C28_ShortestBalancedPrefix ==
    pc = "done" =>
        /\ ~IsScanned(input) => result = NoText
        /\ IsScanned(input) =>
               result = ShortestBalanced(input,
                            [i |-> 2, depth |-> 1, in_string |-> FALSE],
                            pattern)
        /\ IsScanned(input) /\ ~pattern /\ ParseValue(input, 1).ok =>
               result = SomeText(SubSeq(input, 1,
                                        ParseValue(input, 1).at - 1))

\* The depth rule for the turn that reads text[st.i] outside a string
DepthTurn(text, st, nx) ==
    /\ text[st.i] \in {LBRACE, LBRACKET} => nx.depth = st.depth + 1
    /\ text[st.i] \in {RBRACE, RBRACKET} => nx.depth = st.depth - 1

QuotesEscaped(text) == replace(text, <<DQUOTE>>, <<BACKSLASH, DQUOTE>>)

\* The two results agree: both None, or the second is the first with its
\* quotes escaped
Symmetric(literal, escaped) ==
    IF literal = NoText THEN escaped = NoText
    ELSE escaped = SomeText(QuotesEscaped(literal.val))

\* C32: the two quoting modes of the balanced scanner are symmetric. For
\* every text T, with T' the text T after each double quote is replaced
\* by backslash-quote, the scan of T in Literal mode and the scan of T' in
\* EscapedQuotes mode both return None, or the EscapedQuotes result is
\* the Literal result with the same replacement applied.
C32_ModesSymmetric ==
    pc = "done" /\ ~pattern =>
        Symmetric(result,
                  extract_balanced_json_with_escaped_strings(
                      QuotesEscaped(input), TRUE))

------------------------------------------------------------------------

-----------------------------------------------------------------------------
(* The loops of extract_nextjs_rsc, one turn of the while loop at a time.  *)
(* pc names the pattern being searched for; result holds search_start (the *)
(* cursor, counted from 1) and the number of occurrences processed. The    *)
(* values a turn pushes are those of Occurrence, as in SpecRsc; they have  *)
(* no part in where the next search starts.                                *)

MaxLoopFrags == 3

\* {"k":1}, {\"k\":2}, a key without an object, a brace, a two-byte
\* character and a closing brace
LoopFrags ==
    { LiteralPayload, EscapedPayload, literal_pattern(KEY_K) \o <<49>>,
      <<LBRACE>>, <<233>>, <<RBRACE>> }

\* A loop that searches again from the match it has just processed
next_search_start_AtMatch(abs_pos, pat) == abs_pos

\* search_start = abs_pos + pattern.len()
next_search_start(abs_pos, pat) == abs_pos + Len(pat)

\* The pattern of the turn of for (pattern, is_escaped) in &patterns
current_pattern(at, json_key) ==
    IF at = "escaped" THEN escaped_pattern(json_key)
    ELSE literal_pattern(json_key)

\* script_content[search_start..].find(pattern), as a position counted
\* from 1; 0 when there is none
key_pos(script_content, json_key, at, search_start) ==
    find_from(script_content, current_pattern(at, json_key), search_start)

\* &script_content[obj_start..] panics for the occurrence at abs_pos
slice_panics(script_content, obj_start) ==
    obj_start.some /\ ~is_char_boundary(script_content, obj_start.val)

occurrence_panics(script_content, abs_pos) ==
    slice_panics(script_content,
        find_object_start_plain(SubSeq(script_content, 1, abs_pos - 1)))

LoopStart == [processed |-> 0, search_start |-> 1]

InitLoop ==
    /\ input \in Texts(LoopFrags, MaxLoopFrags)
    /\ pattern = KEY_K
    /\ pc = "escaped"
    /\ result = LoopStart

\* One turn of the while loop: the occurrence is processed and the cursor
\* moves behind the pattern
ProcessOccurrence ==
    /\ pc \in {"escaped", "literal"}
    /\ key_pos(input, pattern, pc, result.search_start) # 0
    /\ ~occurrence_panics(input,
            key_pos(input, pattern, pc, result.search_start))
    /\ result' =
           [processed |-> result.processed + 1,
            search_start |->
                next_search_start(
                    key_pos(input, pattern, pc, result.search_start),
                    current_pattern(pc, pattern))]
    /\ UNCHANGED <<input, pattern, pc>>

\* The slice from obj_start panics: the call ends there
PanicAtOccurrence ==
    /\ pc \in {"escaped", "literal"}
    /\ key_pos(input, pattern, pc, result.search_start) # 0
    /\ occurrence_panics(input,
           key_pos(input, pattern, pc, result.search_start))
    /\ pc' = "panicked"
    /\ UNCHANGED <<input, pattern, result>>

\* The escaped pattern is found no more: the literal one is searched for
\* from the start
NextPattern ==
    /\ pc = "escaped"
    /\ key_pos(input, pattern, pc, result.search_start) = 0
    /\ pc' = "literal"
    /\ result' = [result EXCEPT !.search_start = 1]
    /\ UNCHANGED <<input, pattern>>

\* Ok(results)
ReturnResults ==
    /\ pc = "literal"
    /\ key_pos(input, pattern, pc, result.search_start) = 0
    /\ pc' = "done"
    /\ UNCHANGED <<input, pattern, result>>

NextLoop ==
    \/ ProcessOccurrence
    \/ PanicAtOccurrence
    \/ NextPattern
    \/ ReturnResults

\* The call runs on until it returns or panics
SpecLoop == InitLoop /\ [][NextLoop]_vars /\ WF_vars(NextLoop)

-----------------------------------------------------------------------------
(* Claims about the loops of extract_nextjs_rsc, checked under SpecLoop.   *)

\* Within one pattern every turn moves the cursor forward
CursorAdvances ==
    pc' = pc => result'.search_start > result.search_start

\* Every turn of the forward scan of `text` moves its index forward, and
\* never beyond the end of the text
ForwardScanAdvances(text, escaped_strings) ==
    \A n \in 0..Len(text) :
        Running(text, ScanState(text, escaped_strings, n))
            => /\ ScanState(text, escaped_strings, n + 1).i
                      > ScanState(text, escaped_strings, n).i
               /\ ScanState(text, escaped_strings, n + 1).i <= Len(text) + 1

\* The occurrence the loop is about to process, 0 when there is none
PendingOccurrence ==
    IF pc \in {"escaped", "literal"}
    THEN key_pos(input, pattern, pc, result.search_start)
    ELSE 0

\* The forward scan of the pending occurrence advances, and the turn
\* panics exactly when the extractor does on that occurrence
PendingScanAdvances ==
    LET abs_pos == PendingOccurrence
        obj_start == find_object_start_plain(SubSeq(input, 1, abs_pos - 1))
    IN abs_pos # 0 =>
          /\ occurrence_panics(input, abs_pos)
                 = Occurrence(input, pattern, pc = "escaped", abs_pos).panic
          /\ (/\ obj_start.some
              /\ is_char_boundary(input, obj_start.val)
              /\ IsScanned(SliceFrom(input, obj_start.val)))
                 => ForwardScanAdvances(SliceFrom(input, obj_start.val),
                                        pc = "escaped")

\* The call has come to its end, as the extractor does on the script
Returned ==
    \/ pc = "done" /\ ~extract_nextjs_rsc(input, pattern).panic
    \/ pc = "panicked" /\ extract_nextjs_rsc(input, pattern).panic

\* C33: extract_nextjs_rsc terminates on every finite script and key.
\* For each of the two patterns the search cursor strictly increases with
\* every occurrence processed (the next search starts at the previous
\* match's end), each turn of the forward scan consumes at least one
\* character, and the call comes to its end.
C33_Terminates ==
    /\ [][CursorAdvances]_vars
    /\ []PendingScanAdvances
    /\ <>Returned

\* A call that has processed occurrences of both patterns and returned
C33_Witness ==
    /\ pc = "done"
    /\ result.processed >= 3
    /\ KeyOccurrences(input, pattern, TRUE) # {}
    /\ result.search_start > 1

-----------------------------------------------------------------------------
(* A claim about the depth counters of extract_until_statement_end,        *)
(* checked under SpecScan.                                                 *)

\* C34: extract_until_statement_end. At every step of every scan the
\* brace depth and the bracket depth are at least 0, so that an unmatched
\* closing } or ] before the statement's terminator does not leave the
\* counters non-zero and the scan still stops at the first semicolon
\* outside strings and outside open braces and brackets.
C34_DepthsNeverNegative ==
    pc = "done" =>
        /\ \A i \in 1..(Len(input) + 1) :
               /\ StateBefore(input, i).brace_depth >= 0
               /\ StateBefore(input, i).bracket_depth >= 0
        /\ result.brace_depth >= 0 /\ result.bracket_depth >= 0

-----------------------------------------------------------------------------
(* A claim about the length of what decode_js_string returns, checked      *)
(* under SpecDecode.                                                       *)

\* C35: decode_js_string never lengthens its input. On success the output
\* has at most as many characters, and at most as many UTF-8 bytes, as the
\* input: every escape consumes at least as many characters as it emits.
C35_NeverLengthens ==
    pc = "done" /\ result.ok =>
        /\ Len(result.val) <= Len(input)
        /\ ByteLen(result.val) <= ByteLen(input)

\* A decoded text that is shorter than the input, made of ASCII characters
\* only, and holds a character of two bytes
C35_Witness ==
    /\ pc = "done" /\ result.ok
    /\ Len(result.val) < Len(input)
    /\ ByteLen(input) = Len(input)
    /\ ByteLen(result.val) > Len(result.val)

-----------------------------------------------------------------------------
(* A claim about the shape of what the balanced scanner returns, checked   *)
(* under SpecBalanced.                                                     *)

\* The turn taken from st reads the closer of the text's first character
\* outside a string and brings the depth to zero
ClosingTurn(text, escaped_strings, st) ==
    /\ Running(text, st)
    /\ ~st.in_string
    /\ text[st.i] = CloserOf(text)
    /\ balanced_step(text, st, escaped_strings, text[1],
                     CloserOf(text)).depth = 0

\* C36: In both modes the scan index never exceeds the input length (the
\* index counted from 1 never exceeds the length plus one), and every
\* Some(result) is a prefix of the input whose first character is the opening
\* brace or bracket and whose last character is the closer of the same
\* kind, read outside string state.
C36_ResultShape ==
    pc = "done" /\ IsScanned(input) =>
        /\ \A n \in 0..Len(input) :
              ScanState(input, pattern, n).i <= Len(input) + 1
        /\ result.some =>
              /\ Len(result.val) <= Len(input)
              /\ result.val = SubSeq(input, 1, Len(result.val))
              /\ result.val[1] \in {LBRACE, LBRACKET}
              /\ result.val[Len(result.val)] = CloserOf(input)
              /\ \E n \in 0..Len(input) :
                    LET st == ScanState(input, pattern, n) IN
                    /\ ClosingTurn(input, pattern, st)
                    /\ st.i = Len(result.val)

\* A scan that returns a text, after a string that holds the closer and a
\* backslash at which two characters are skipped
C36_Witness ==
    /\ pc = "done" /\ IsScanned(input)
    /\ result.some
    /\ \E m, n \in 0..Len(input) :
          LET sm == ScanState(input, pattern, m)
              sn == ScanState(input, pattern, n) IN
          /\ Running(input, sm) /\ sm.in_string
          /\ input[sm.i] = CloserOf(input)
          /\ Running(input, sn)
          /\ is_skipped(input, sn.i, sn.in_string, pattern)

-----------------------------------------------------------------------------
(* A claim about what escape_json_control_chars leaves alone, checked      *)
(* under SpecRepair.                                                       *)

\* Every character that is no control character is written as it is, in
\* its place in the scan
NonControlCopied ==
    \A i \in 1..Len(input) :
        ~IsControlCharacter(input[i]) => WrittenFor(input, i) = <<input[i]>>

\* C37 as claimed: when the input has no control character inside a string
\* span other than ones right after a backslash, the output equals the
\* input; and in every case all non-control characters, every quote and
\* backslash included, appear in the output unchanged and in the same
\* order.
C37_FrameByPreviousCharacter ==
    pc = "done" =>
        /\ (\A i \in 1..Len(input) :
                IsControlCharacter(input[i])
                /\ InSpanByPreviousCharacter(input, i)
                => AfterBackslash(input, i))
           => result = input
        /\ NonControlCopied

\* C37 as amended: the same, with spans and "right after a backslash"
\* read by escape pairs taken left to right.
C37_FrameByEscapePairs ==
    pc = "done" =>
        /\ (\A i \in 1..Len(input) :
                IsControlCharacter(input[i]) /\ InSpanByEscapePairs(input, i)
                => IsEscapedByPair(input, i))
           => result = input
        /\ NonControlCopied

\* A text returned as it is, with a control character before the first
\* quote and another inside a span as the second character of an escape
\* pair
C37_Witness ==
    /\ pc = "done" /\ result = input
    /\ \E i, j \in 1..Len(input) :
          /\ IsControlCharacter(input[i])
          /\ ~InSpanByEscapePairs(input, i) /\ ~IsEscapedByPair(input, i)
          /\ IsControlCharacter(input[j])
          /\ InSpanByEscapePairs(input, j) /\ IsEscapedByPair(input, j)
    /\ \E i \in 1..Len(input) : input[i] = 97

-----------------------------------------------------------------------------
(* html_query_all (src/src/duckdb.rs): HtmlQueryAllFunction::invoke. The   *)
(* output is a list vector: an entry for every row, NULL or an offset and  *)
(* a length into the child vector, the child vector, and its length.       *)

\* An entry of the list vector
NullEntry == [null |-> TRUE, offset |-> 0, length |-> 0]
ListEntry(offset, length) ==
    [null |-> FALSE, offset |-> offset, length |-> length]

\* The body of the first for i in 0..size: what is pushed to all_results
row_elements(row, columns) ==
    IF row.html_null THEN <<>>
    ELSE LET elements == extract_all_with_mode(row.document,
                             selector_of(row, columns), mode_of(row, columns))
         IN IF elements.ok THEN elements.val ELSE <<>>

\* total_elements += elements.len()
RECURSIVE total_elements(_)
total_elements(all_results) ==
    IF all_results = <<>> THEN 0
    ELSE Len(Head(all_results)) + total_elements(Tail(all_results))

\* child_vector.insert(current_offset + j, element) for every element; the
\* slot with the index k, counted from 0, is child[k + 1]
RECURSIVE insert_elements(_, _, _, _)
insert_elements(child, current_offset, elements, j) ==
    IF j >= Len(elements) THEN child
    ELSE insert_elements(
             [child EXCEPT ![current_offset + j + 1] = Cell(elements[j + 1])],
             current_offset, elements, j + 1)

\* A loop that moves the offset on by one for every row
next_offset_PerRow(current_offset, length) == current_offset + 1

\* current_offset += elements.len()
next_offset(current_offset, length) == current_offset + length

\* for (i, elements) in all_results.iter().enumerate()
RECURSIVE populate_from(_, _, _, _, _, _)
populate_from(chunk, all_results, i, current_offset, entries, child) ==
    IF i > Len(chunk) THEN [entries |-> entries, child |-> child]
    ELSE IF chunk[i].html_null
    THEN populate_from(chunk, all_results, i + 1, current_offset,
                       Append(entries, NullEntry), child)
    ELSE populate_from(chunk, all_results, i + 1,
             next_offset(current_offset, Len(all_results[i])),
             Append(entries, ListEntry(current_offset, Len(all_results[i]))),
             insert_elements(child, current_offset, all_results[i], 0))

QueryAllCrash == [crash |-> TRUE, entries |-> <<>>, child |-> <<>>, len |-> 0]

\* HtmlQueryAllFunction::invoke. The html strings are read as in
\* html_query, those of the NULL rows included.
HtmlQueryAllFunction_invoke(chunk, columns) ==
    IF ~html_contents(chunk) THEN QueryAllCrash
    ELSE LET all_results ==
                 [i \in 1..Len(chunk) |-> row_elements(chunk[i], columns)]
             total == total_elements(all_results)
             filled == populate_from(chunk, all_results, 1, 0, <<>>,
                                     [k \in 1..total |-> NullCell])
         IN [crash |-> FALSE, entries |-> filled.entries,
             child |-> filled.child, len |-> total]

-----------------------------------------------------------------------------
(* html_query_all, called on chunks of one to three rows, with one, two or *)
(* three columns.                                                          *)

\* <a></a> and <a href="/x">t</a>
ListElements ==
    { [tag |-> <<97>>, has_href |-> FALSE, href |-> <<>>, text |-> <<>>],
      [tag |-> <<97>>, has_href |-> TRUE, href |-> <<SLASH, LOWER_X>>,
       text |-> <<LOWER_T>>] }

ListDocuments == UNION { [1..k -> ListElements] : k \in 0..MaxElements }

\* The rows of a chunk with the given columns: the selector is a or one
\* that does not parse, and :root where there is no selector column; the
\* third column is @href, or the list of @href alone
ListRows(columns) ==
    NullRows \cup
    { [html_null |-> FALSE, readable |-> TRUE, document |-> d,
       selector_null |-> s = <<>>, selector |-> s,
       extract_null |-> e.null, extract |-> e.str, extract_list |-> e.list] :
      d \in ListDocuments,
      s \in IF columns.num_columns > 1 THEN {<<97>>, <<62>>}
            ELSE {<<>>},
      e \in IF columns.num_columns < 3
            THEN {[null |-> TRUE, str |-> <<>>, list |-> <<>>]}
            ELSE IF columns.is_list
            THEN {[null |-> FALSE, str |-> <<>>,
                   list |-> << <<AT_SIGN>> \o HREF >>]}
            ELSE {[null |-> FALSE, str |-> <<AT_SIGN>> \o HREF,
                   list |-> <<>>]} }

InitQueryAll ==
    /\ pattern \in { c \in QueryColumns : c.is_list => c.num_columns = 3 }
    /\ \E size \in {1, 2, 3} : input \in [1..size -> ListRows(pattern)]
    /\ pc = "ready"
    /\ result = [crash |-> FALSE, entries |-> <<>>, child |-> <<>>,
                 len |-> 0]

CallHtmlQueryAll ==
    /\ pc = "ready"
    /\ result' = HtmlQueryAllFunction_invoke(input, pattern)
    /\ pc' = "done"
    /\ UNCHANGED <<input, pattern>>

NextQueryAll == CallHtmlQueryAll

SpecQueryAll == InitQueryAll /\ [][NextQueryAll]_vars

-----------------------------------------------------------------------------
(* A claim about html_query_all, checked under SpecQueryAll.               *)

\* The list elements of row i: what extract_all_with_mode returns for it,
\* nothing for a NULL html or a selector that fails
ElementsOfRow(i) ==
    LET row == input[i]
        elements == extract_all_with_mode(row.document,
                        selector_of(row, pattern), mode_of(row, pattern))
    IN IF row.html_null \/ ~elements.ok THEN <<>> ELSE elements.val

\* The number of elements of the rows before row i
RECURSIVE ElementsBefore(_)
ElementsBefore(i) ==
    IF i <= 1 THEN 0
    ELSE ElementsBefore(i - 1) + Len(ElementsOfRow(i - 1))

SelectorFails(i) ==
    /\ ~input[i].html_null
    /\ ~select(input[i].document, selector_of(input[i], pattern)).ok

\* C38: html_query_all list layout. When a chunk has been processed, the
\* entry of a row with a NULL html is NULL; the entry of any other row is
\* not NULL, its offset is the number of elements of all earlier rows and
\* its length the number of its own elements, which the child vector holds
\* from that offset on, so that the entries follow one another without
\* overlap; the child vector length is the number of all elements; and a
\* row whose selector fails has an empty list.
C38_ListLayout ==
    pc = "done" /\ ~result.crash =>
        /\ Len(result.entries) = Len(input)
        /\ \A i \in 1..Len(input) :
              LET entry == result.entries[i] IN
              IF input[i].html_null THEN entry = NullEntry
              ELSE /\ ~entry.null
                   /\ entry.offset = ElementsBefore(i)
                   /\ entry.length = Len(ElementsOfRow(i))
                   /\ \A k \in 1..entry.length :
                         result.child[entry.offset + k]
                             = Cell(ElementsOfRow(i)[k])
                   /\ SelectorFails(i) => entry.length = 0
        /\ \A i, j \in 1..Len(input) :
              i < j /\ ~input[i].html_null /\ ~input[j].html_null =>
                  result.entries[i].offset + result.entries[i].length
                      <= result.entries[j].offset
        /\ result.len = ElementsBefore(Len(input) + 1)
        /\ Len(result.child) = result.len

\* A chunk of three rows: a row with two elements, a row with a NULL html
\* or a selector that fails, and a row whose element comes after them in
\* the child vector
C38_Witness ==
    /\ pc = "done" /\ ~result.crash
    /\ Len(input) = 3
    /\ result.entries[1] = ListEntry(0, 2)
    /\ input[2].html_null \/ SelectorFails(2)
    /\ result.entries[3] = ListEntry(2, 1)
    /\ result.len = 3

====
